---- MODULE Spec2Model ----
(***************************************************************************)
(* Lake-ecosystem simulation core (aquatox): forcing resolution            *)
(* (Environment), the explicit Euler step (ODESolver), the trophic rate    *)
(* engine (FoodWeb) and the tick loop (Simulation.run).                    *)
(*                                                                         *)
(* Numbers.  Python floats are modelled as integers in fixed point; a      *)
(* division truncates (\div) where the float would round.  Units:          *)
(*   - temperatures are in 1/100 degree (3.0 degrees is 300);              *)
(*   - wind speeds are in 1/1000 m/s;                                      *)
(*   - max_growth, mortality_rate, consumption_rate and the assimilation   *)
(*     efficiency are in percent (0.7 is 70), so a product with one of     *)
(*     them is divided by 100;                                             *)
(*   - every other quantity is a whole number of its unit.                 *)
(* Time.  A datetime is its proleptic Gregorian ordinal (datetime(1,1,1)   *)
(* is 1); times of day are not modelled, so dt_days is a whole number of   *)
(* days.  Optional values (float | None) are sequences of length 0 or 1.   *)
(* Names are sequences of one-character strings, so that lower() and       *)
(* _normalize_name act on characters.                                      *)
(***************************************************************************)
EXTENDS Integers, Sequences, FiniteSets, TLC

None == << >>
Some(x) == << x >>
IsNone(o) == o = << >>
Val(o) == o[1]

Max2(a, b) == IF a >= b THEN a ELSE b
Min2(a, b) == IF a <= b THEN a ELSE b
Abs(a) == IF a >= 0 THEN a ELSE 0 - a

RECURSIVE SumSeq(_)
SumSeq(s) == IF s = << >> THEN 0 ELSE s[1] + SumSeq(Tail(s))

(***************************************************************************)
(* datetime: year, month, day and day of year of an ordinal                *)
(***************************************************************************)
IsLeap(y) == y % 4 = 0 /\ (y % 100 # 0 \/ y % 400 = 0)

DaysInMonth(y, m) ==
  IF m = 2 THEN (IF IsLeap(y) THEN 29 ELSE 28)
  ELSE IF m \in {4, 6, 9, 11} THEN 30 ELSE 31

RECURSIVE DaysBeforeMonth(_, _)
DaysBeforeMonth(y, m) ==
  IF m = 1 THEN 0 ELSE DaysBeforeMonth(y, m - 1) + DaysInMonth(y, m - 1)

DaysBeforeYear(y) ==
  LET p == y - 1 IN p * 365 + (p \div 4) - (p \div 100) + (p \div 400)

ToOrdinal(y, m, d) == DaysBeforeYear(y) + DaysBeforeMonth(y, m) + d

YearOf(o) ==
  CHOOSE y \in (o \div 366)..((o \div 365) + 1) :
    y >= 1 /\ DaysBeforeYear(y) < o /\ o <= DaysBeforeYear(y + 1)

\* t.timetuple().tm_yday
YDay(o) == o - DaysBeforeYear(YearOf(o))

\* the month holding day yday of year y
MonthIn(y, yday) ==
  CHOOSE m \in 1..12 : DaysBeforeMonth(y, m) < yday /\ yday <= DaysBeforeMonth(y, m + 1)

DayIn(y, yday) == yday - DaysBeforeMonth(y, MonthIn(y, yday))

MonthOf(o) == MonthIn(YearOf(o), YDay(o))
DayOf(o) == DayIn(YearOf(o), YDay(o))

\* datetime.min and datetime.max: t + timedelta raises OverflowError outside
InDateRange(o) == o >= 1 /\ o <= ToOrdinal(9999, 12, 31)

\* t.replace(year=target_year), and t.replace(year=target_year, month=2, day=28) when
\* the first raises ValueError (Feb 29 in a year that has none)
ReplaceYear(target_year, month, day) ==
  IF day <= DaysInMonth(target_year, month)
  THEN ToOrdinal(target_year, month, day)
  ELSE ToOrdinal(target_year, 2, 28)

\* Environment._add_years
AddYears(t, years) == ReplaceYear(YearOf(t) + years, MonthOf(t), DayOf(t))

\* a shift that leaves the timestamp in its own year
ShiftToYearKeep(t, year) == t

\* Environment._shift_to_year
ShiftToYear(t, year) == AddYears(t, year - YearOf(t))

(***************************************************************************)
(* math.cos and math.sin at the angles 2*pi*k/365, times 1000              *)
(***************************************************************************)
Cos1000Table ==
  <<
     1000, 1000, 999, 999, 998, 996, 995, 993, 991, 988, 985, 982, 979, 975, 971, 967, 962, 957, 952, 947,
     941, 935, 929, 923, 916, 909, 902, 894, 886, 878, 870, 861, 852, 843, 834, 824, 814, 804, 794, 783,
     772, 761, 750, 738, 727, 715, 703, 690, 678, 665, 652, 639, 625, 612, 598, 584, 570, 556, 542, 527,
     512, 498, 483, 467, 452, 437, 421, 405, 390, 374, 358, 342, 325, 309, 293, 276, 260, 243, 226, 209,
     192, 176, 159, 142, 124, 107, 90, 73, 56, 39, 22, 4, -13, -30, -47, -65, -82, -99, -116, -133,
     -150, -167, -184, -201, -218, -234, -251, -268, -284, -301, -317, -333, -350, -366, -382, -398, -413, -429, -444, -460,
     -475, -490, -505, -520, -534, -549, -563, -577, -591, -605, -619, -632, -645, -658, -671, -684, -696, -709, -721, -732,
     -744, -755, -767, -778, -788, -799, -809, -819, -829, -838, -848, -857, -865, -874, -882, -890, -898, -905, -912, -919,
     -926, -932, -938, -944, -950, -955, -960, -965, -969, -973, -977, -980, -984, -987, -989, -992, -994, -996, -997, -998,
     -999, -1000, -1000, -1000, -1000, -999, -998, -997, -996, -994, -992, -989, -987, -984, -980, -977, -973, -969, -965, -960,
     -955, -950, -944, -938, -932, -926, -919, -912, -905, -898, -890, -882, -874, -865, -857, -848, -838, -829, -819, -809,
     -799, -788, -778, -767, -755, -744, -732, -721, -709, -696, -684, -671, -658, -645, -632, -619, -605, -591, -577, -563,
     -549, -534, -520, -505, -490, -475, -460, -444, -429, -413, -398, -382, -366, -350, -333, -317, -301, -284, -268, -251,
     -234, -218, -201, -184, -167, -150, -133, -116, -99, -82, -65, -47, -30, -13, 4, 22, 39, 56, 73, 90,
     107, 124, 142, 159, 176, 192, 209, 226, 243, 260, 276, 293, 309, 325, 342, 358, 374, 390, 405, 421,
     437, 452, 467, 483, 498, 512, 527, 542, 556, 570, 584, 598, 612, 625, 639, 652, 665, 678, 690, 703,
     715, 727, 738, 750, 761, 772, 783, 794, 804, 814, 824, 834, 843, 852, 861, 870, 878, 886, 894, 902,
     909, 916, 923, 929, 935, 941, 947, 952, 957, 962, 967, 971, 975, 979, 982, 985, 988, 991, 993, 995,
     996, 998, 999, 999, 1000
  >>

Sin1000Table ==
  <<
     0, 17, 34, 52, 69, 86, 103, 120, 137, 154, 171, 188, 205, 222, 239, 255, 272, 288, 305, 321,
     338, 354, 370, 386, 401, 417, 433, 448, 464, 479, 494, 509, 523, 538, 552, 567, 581, 595, 608, 622,
     635, 649, 662, 674, 687, 699, 712, 724, 735, 747, 758, 769, 780, 791, 801, 812, 821, 831, 841, 850,
     859, 867, 876, 884, 892, 900, 907, 914, 921, 928, 934, 940, 946, 951, 956, 961, 966, 970, 974, 978,
     981, 984, 987, 990, 992, 994, 996, 997, 998, 999, 1000, 1000, 1000, 1000, 999, 998, 997, 995, 993, 991,
     989, 986, 983, 980, 976, 972, 968, 963, 959, 954, 948, 943, 937, 931, 924, 918, 911, 903, 896, 888,
     880, 872, 863, 854, 845, 836, 826, 817, 806, 796, 786, 775, 764, 753, 741, 730, 718, 706, 693, 681,
     668, 655, 642, 629, 615, 602, 588, 574, 560, 545, 531, 516, 501, 486, 471, 456, 441, 425, 409, 394,
     378, 362, 346, 329, 313, 297, 280, 264, 247, 230, 214, 197, 180, 163, 146, 129, 112, 95, 77, 60,
     43, 26, 9, -9, -26, -43, -60, -77, -95, -112, -129, -146, -163, -180, -197, -214, -230, -247, -264, -280,
     -297, -313, -329, -346, -362, -378, -394, -409, -425, -441, -456, -471, -486, -501, -516, -531, -545, -560, -574, -588,
     -602, -615, -629, -642, -655, -668, -681, -693, -706, -718, -730, -741, -753, -764, -775, -786, -796, -806, -817, -826,
     -836, -845, -854, -863, -872, -880, -888, -896, -903, -911, -918, -924, -931, -937, -943, -948, -954, -959, -963, -968,
     -972, -976, -980, -983, -986, -989, -991, -993, -995, -997, -998, -999, -1000, -1000, -1000, -1000, -999, -998, -997, -996,
     -994, -992, -990, -987, -984, -981, -978, -974, -970, -966, -961, -956, -951, -946, -940, -934, -928, -921, -914, -907,
     -900, -892, -884, -876, -867, -859, -850, -841, -831, -821, -812, -801, -791, -780, -769, -758, -747, -735, -724, -712,
     -699, -687, -674, -662, -649, -635, -622, -608, -595, -581, -567, -552, -538, -523, -509, -494, -479, -464, -448, -433,
     -417, -401, -386, -370, -354, -338, -321, -305, -288, -272, -255, -239, -222, -205, -188, -171, -154, -137, -120, -103,
     -86, -69, -52, -34, -17
  >>

\* cos(2*pi*k/365) and sin(2*pi*k/365), times 1000, for any integer k
Cos1000(k) == Cos1000Table[(k % 365) + 1]
Sin1000(k) == Sin1000Table[(k % 365) + 1]

(***************************************************************************)
(* Environment: time-series resolution                                     *)
(***************************************************************************)
\* a series (Dict[Date, float]) is a function from ordinals to values
EmptySeries == << >>

SetMin(S) == CHOOSE x \in S : \A y \in S : x <= y

RECURSIVE SortSet(_)
SortSet(S) == IF S = {} THEN << >> ELSE << SetMin(S) >> \o SortSet(S \ {SetMin(S)})

\* Environment._get_sorted_dates
GetSortedDates(series) == SortSet(DOMAIN series)

\* bisect.bisect_left on a sorted list: how many entries are below t
BisectLeft(dates, t) == Cardinality({i \in 1..Len(dates) : dates[i] < t})

\* a bracket answered with its left value: no interpolation
LerpStep(left, right, left_val, right_val, t) == left_val

\* left_val + (right_val - left_val) * frac, frac = (t - left) / (right - left);
\* left_val when the bracket has no duration
Lerp(left, right, left_val, right_val, t) ==
  IF right - left <= 0 THEN left_val
  ELSE left_val + (((right_val - left_val) * (t - left)) \div (right - left))

\* Environment._interpolate_linear, from idx = bisect_left(dates, t)
LinearAt(series, dates, t, idx) ==
  IF idx <= 0 THEN series[dates[1]]
  ELSE IF idx >= Len(dates) THEN series[dates[Len(dates)]]
  ELSE Lerp(dates[idx], dates[idx + 1], series[dates[idx]], series[dates[idx + 1]], t)

\* Environment._interpolate_linear
InterpolateLinear(series, dates, t) == LinearAt(series, dates, t, BisectLeft(dates, t))

\* series[d] if d in series else series[first]
ValueOrFirst(series, d, first) == IF d \in DOMAIN series THEN series[d] ELSE series[first]

\* Environment._interpolate_cyclic, from idx = bisect_left(extended_dates, t_adj)
CyclicAt(series, first, extended_dates, t_adj, idx) ==
  IF idx <= 0 THEN series[first]
  ELSE IF idx >= Len(extended_dates) THEN series[first]
  ELSE Lerp(extended_dates[idx], extended_dates[idx + 1],
            ValueOrFirst(series, extended_dates[idx], first),
            ValueOrFirst(series, extended_dates[idx + 1], first), t_adj)

\* Environment._interpolate_cyclic, from extended_dates and t_adj
CyclicBracket(series, first, extended_dates, t_adj) ==
  CyclicAt(series, first, extended_dates, t_adj, BisectLeft(extended_dates, t_adj))

\* Environment._interpolate_cyclic (dates arrive sorted, so sorted(dates) is dates)
InterpolateCyclic(series, dates, t) ==
  IF t \in DOMAIN series THEN series[t]
  ELSE CyclicBracket(series, dates[1], Append(dates, AddYears(dates[1], 1)),
                     IF t < dates[1] THEN AddYears(t, 1) ELSE t)

\* [d for d in dates if d.year == target_year] or dates
CycleDates(dates, target_year, in_year) == IF in_year = << >> THEN dates ELSE in_year

\* the end of _get_series_value, from cycle_dates and t_adj
CycleValue(series, cycle_dates, t_adj) ==
  IF Len(cycle_dates) = 1 THEN series[cycle_dates[1]]
  ELSE InterpolateCyclic(series, cycle_dates, t_adj)

\* _get_series_value outside [start, end], from target_year
ResolveCyclic(series, dates, t, target_year) ==
  CycleValue(series,
             CycleDates(dates, target_year,
                        SelectSeq(dates, LAMBDA d : YearOf(d) = target_year)),
             ShiftToYear(t, target_year))

\* _get_series_value after the exact match failed, from the sorted dates
ResolveSorted(series, dates, t) ==
  IF Len(dates) = 1 THEN series[dates[1]]
  ELSE IF dates[1] <= t /\ t <= dates[Len(dates)] THEN InterpolateLinear(series, dates, t)
  ELSE ResolveCyclic(series, dates, t,
                     IF t < dates[1] THEN YearOf(dates[1]) ELSE YearOf(dates[Len(dates)]))

\* Environment._get_series_value
GetSeriesValue(series, t) ==
  IF DOMAIN series = {} THEN 0
  ELSE IF t \in DOMAIN series THEN series[t]
  ELSE ResolveSorted(series, GetSortedDates(series), t)

\* _get_series_value_linear, from the sorted dates
LinearSorted(series, dates, t) ==
  IF t < dates[1] \/ t > dates[Len(dates)] THEN None
  ELSE IF t \in DOMAIN series THEN Some(series[t])
  ELSE Some(InterpolateLinear(series, dates, t))

\* a linear resolver that answers a query outside the range through the cyclic rule
GetSeriesValueLinearCyclic(series, t) ==
  IF DOMAIN series = {} THEN None ELSE Some(GetSeriesValue(series, t))

\* Environment._get_series_value_linear: None outside the covered range
GetSeriesValueLinear(series, t) ==
  IF DOMAIN series = {} THEN None
  ELSE LinearSorted(series, GetSortedDates(series), t)

\* dict.get(t)
SeriesGet(series, t) == IF t \in DOMAIN series THEN Some(series[t]) ELSE None

(***************************************************************************)
(* Environment: forcing accessors                                          *)
(***************************************************************************)
\* Environment._seasonal_value: mean + (range / 2) * cos(2 pi (yday - 200) / 365)
SeasonalValue(mean, temp_range, t) ==
  IF IsNone(mean) \/ IsNone(temp_range) THEN None
  ELSE Some(Val(mean) + ((Val(temp_range) * Cos1000(YDay(t) - 200)) \div 2000))

\* DEFAULT_WIND_TERMS: (freq, coef_cos, coef_sin), the coefficients times 100000
DEFAULT_WIND_TERMS ==
  << << 1, 83408, 87256 >>,
     << 2, 42450, -28710 >>,
     << 4, -21580, -66340 >>,
     << 8, -2640, -27660 >>,
     << 16, 2360, -34920 >>,
     << 32, -44200, 89000 >>,
     << 64, -143850, 63400 >>,
     << 128, 9350, -106000 >>,
     << 200, -56400, -29100 >>,
     << 300, -64840, 61620 >>,
     << 6, 10830, 40470 >>,
     << 3, 2680, -12090 >> >>

\* one harmonic of the default wind series at julian day d, in 1/1000 m/s
WindTerm(term, julian_day) ==
  ((term[2] * Cos1000(julian_day * term[1])) + (term[3] * Sin1000(julian_day * term[1])))
    \div 100000

\* the loop of _default_wind_value: mean_value plus every harmonic, floored at 0
WindSum(mean_value, julian_day) ==
  Max2(mean_value
       + SumSeq([i \in 1..Len(DEFAULT_WIND_TERMS) |->
                   WindTerm(DEFAULT_WIND_TERMS[i], julian_day)]),
       0)

\* a default wind that takes wind_mean as it is, zero and negative included
DefaultWindValueRawMean(env, t) ==
  IF IsNone(env.wind_mean) THEN None
  ELSE Some(WindSum(Val(env.wind_mean), YDay(t)))

\* Environment._default_wind_value
DefaultWindValue(env, t) ==
  IF IsNone(env.wind_mean) THEN None
  ELSE Some(WindSum(IF Val(env.wind_mean) > 0 THEN Val(env.wind_mean) ELSE 3000, YDay(t)))

\* a get_inflow that grows with the water now in the basin
GetInflowOfVolume(env, t) == GetSeriesValue(env.inflow_series, t) + (env.volume \div 10)

\* Environment.get_inflow, Environment.get_outflow
GetInflow(env, t) == GetSeriesValue(env.inflow_series, t)
GetOutflow(env, t) == GetSeriesValue(env.outflow_series, t)

Missing == [epi |-> None, hypo |-> None, stratified |-> FALSE]

\* a stratification rule that also counts a difference of exactly 3.0
StratifyInclusive(epi, hypo) ==
  [epi |-> Some(epi),
   hypo |-> Some(IF Abs(epi - hypo) >= 300 THEN hypo ELSE epi),
   stratified |-> Abs(epi - hypo) >= 300]

\* the stratification rule on a resolved pair
Stratify(epi, hypo) ==
  [epi |-> Some(epi),
   hypo |-> Some(IF Abs(epi - hypo) > 300 THEN hypo ELSE epi),
   stratified |-> Abs(epi - hypo) > 300]

\* a tail that reports the pair missing unless both sides resolved
PairOfBoth(epi_value, hypo_value) ==
  IF IsNone(epi_value) \/ IsNone(hypo_value) THEN Missing
  ELSE Stratify(Val(epi_value), Val(hypo_value))

\* the tail of get_temperature_pair: mirror a missing side, then the stratification rule
PairOf(epi_value, hypo_value) ==
  IF IsNone(epi_value) /\ IsNone(hypo_value) THEN Missing
  ELSE IF IsNone(epi_value) THEN Stratify(Val(hypo_value), Val(hypo_value))
  ELSE IF IsNone(hypo_value) THEN Stratify(Val(epi_value), Val(epi_value))
  ELSE Stratify(Val(epi_value), Val(hypo_value))

\* the two series modes: no pair when epi is missing, or when a hypolimnion series
\* exists and hypo is missing
SeriesPair(epi_value, hypo_value, has_hypo) ==
  IF IsNone(epi_value) THEN Missing
  ELSE IF has_hypo /\ IsNone(hypo_value) THEN Missing
  ELSE PairOf(epi_value, hypo_value)

\* Environment.get_temperature_pair
GetTemperaturePair(env, t) ==
  IF env.temp_forcing_mode = "series" THEN
    IF DOMAIN env.temp_epi_series = {} THEN Missing
    ELSE SeriesPair(SeriesGet(env.temp_epi_series, t),
                    IF DOMAIN env.temp_hypo_series # {}
                    THEN SeriesGet(env.temp_hypo_series, t) ELSE None,
                    DOMAIN env.temp_hypo_series # {})
  ELSE IF env.temp_forcing_mode = "series_interpolate" THEN
    IF DOMAIN env.temp_epi_series = {} THEN Missing
    ELSE SeriesPair(GetSeriesValueLinear(env.temp_epi_series, t),
                    IF DOMAIN env.temp_hypo_series # {}
                    THEN GetSeriesValueLinear(env.temp_hypo_series, t) ELSE None,
                    DOMAIN env.temp_hypo_series # {})
  ELSE IF env.temp_forcing_mode = "mean_range" THEN
    PairOf(SeasonalValue(env.temp_epi_mean, env.temp_epi_range, t),
           SeasonalValue(env.temp_hypo_mean, env.temp_hypo_range, t))
  ELSE PairOf(env.temp_epi_constant, env.temp_hypo_constant)

\* Environment.get_wind
GetWind(env, t) ==
  IF env.wind_forcing_mode = "default_series" THEN DefaultWindValue(env, t)
  ELSE IF env.wind_forcing_mode = "time_varying" THEN
    IF DOMAIN env.wind_series = {} THEN None
    ELSE Some(GetSeriesValue(env.wind_series, t))
  ELSE env.wind_constant

\* Environment.get_light
GetLight(env, t) ==
  IF env.light_forcing_mode = "time_varying" THEN
    IF DOMAIN env.light_series = {} THEN None
    ELSE Some(GetSeriesValue(env.light_series, t))
  ELSE IF env.light_forcing_mode = "mean_range" THEN
    SeasonalValue(env.light_mean, env.light_range, t)
  ELSE env.light_constant

(***************************************************************************)
(* Environment: time-series resolution in floating point                   *)
(*                                                                         *)
(* Series values are Python floats. A float is modelled as a whole number  *)
(* of units whose magnitude has at most Precision significant bits; every  *)
(* operation on floats is the exact result rounded to the nearest float,   *)
(* ties to the even significand. Dates and elapsed seconds stay exact.     *)
(***************************************************************************)
Precision == 4

FracBits == 10

RECURSIVE Pow2(_)
Pow2(n) == IF n = 0 THEN 1 ELSE 2 * Pow2(n - 1)

\* a fraction of elapsed time is held in units of 1 / FracUnit
FracUnit == Pow2(FracBits)

\* the spacing of the floats around the magnitude a / d
RECURSIVE StepOf(_, _, _)
StepOf(a, d, step) == IF a >= Pow2(Precision) * step * d THEN StepOf(a, d, 2 * step) ELSE step

\* q + r / m rounded to the nearest whole number, a tie going to the even one
NearestEven(q, r, m) == IF 2 * r > m \/ (2 * r = m /\ q % 2 = 1) THEN q + 1 ELSE q

\* the float nearest to the magnitude a / d, given the spacing there
RoundMagnitude(a, d, step) ==
  NearestEven(a \div (d * step), a % (d * step), d * step) * step

\* the float nearest to n / d
Round(n, d) ==
  IF n < 0 THEN 0 - RoundMagnitude(0 - n, d, StepOf(0 - n, d, 1))
  ELSE RoundMagnitude(n, d, StepOf(n, d, 1))

\* float addition, subtraction, and multiplication by a fraction
FloatAdd(x, y) == Round(x + y, 1)
FloatSub(x, y) == Round(x - y, 1)
FloatMul(x, frac) == Round(x * frac, FracUnit)

\* float division of two elapsed times, 0 < num <= den
FloatDiv(num, den) == Round(num * FracUnit, den)

\* an interpolation that sets off from the right end of the bracket
FloatLerpFromRight(left, right, left_val, right_val, t) ==
  IF right - left <= 0 THEN left_val
  ELSE FloatAdd(right_val, FloatMul(FloatSub(right_val, left_val),
                                    FloatDiv(t - left, right - left)))

\* frac = (t - left).total_seconds() / span_seconds;
\* left_val + (right_val - left_val) * frac
FloatLerp(left, right, left_val, right_val, t) ==
  IF right - left <= 0 THEN left_val
  ELSE FloatAdd(left_val, FloatMul(FloatSub(right_val, left_val),
                                   FloatDiv(t - left, right - left)))

\* Environment._interpolate_linear, from idx = bisect_left(dates, t)
FloatLinearAt(series, dates, t, idx) ==
  IF idx <= 0 THEN series[dates[1]]
  ELSE IF idx >= Len(dates) THEN series[dates[Len(dates)]]
  ELSE FloatLerp(dates[idx], dates[idx + 1], series[dates[idx]], series[dates[idx + 1]], t)

\* Environment._interpolate_cyclic, from idx = bisect_left(extended_dates, t_adj)
FloatCyclicAt(series, first, extended_dates, t_adj, idx) ==
  IF idx <= 0 THEN series[first]
  ELSE IF idx >= Len(extended_dates) THEN series[first]
  ELSE FloatLerp(extended_dates[idx], extended_dates[idx + 1],
                 ValueOrFirst(series, extended_dates[idx], first),
                 ValueOrFirst(series, extended_dates[idx + 1], first), t_adj)

\* Environment._interpolate_cyclic
FloatInterpolateCyclic(series, dates, t, t_adj, extended_dates) ==
  IF t \in DOMAIN series THEN series[t]
  ELSE FloatCyclicAt(series, dates[1], extended_dates, t_adj,
                     BisectLeft(extended_dates, t_adj))

\* the end of _get_series_value, from cycle_dates and t_adj
FloatCycleValue(series, cycle_dates, t_adj) ==
  IF Len(cycle_dates) = 1 THEN series[cycle_dates[1]]
  ELSE FloatInterpolateCyclic(series, cycle_dates, t_adj,
                              IF t_adj < cycle_dates[1] THEN AddYears(t_adj, 1) ELSE t_adj,
                              Append(cycle_dates, AddYears(cycle_dates[1], 1)))

\* _get_series_value after the exact match failed, from the sorted dates
FloatResolveSorted(series, dates, t, target_year) ==
  IF Len(dates) = 1 THEN series[dates[1]]
  ELSE IF dates[1] <= t /\ t <= dates[Len(dates)]
  THEN FloatLinearAt(series, dates, t, BisectLeft(dates, t))
  ELSE FloatCycleValue(series,
                       CycleDates(dates, target_year,
                                  SelectSeq(dates, LAMBDA d : YearOf(d) = target_year)),
                       ShiftToYear(t, target_year))

\* Environment._get_series_value on floats
FloatSeriesValue(series, t) ==
  IF DOMAIN series = {} THEN 0
  ELSE IF t \in DOMAIN series THEN series[t]
  ELSE FloatResolveSorted(series, GetSortedDates(series), t,
                          IF t < SetMin(DOMAIN series)
                          THEN YearOf(SetMin(DOMAIN series))
                          ELSE YearOf(GetSortedDates(series)[Len(GetSortedDates(series))]))

(***************************************************************************)
(* Names: str.lower, str.strip and foodweb._normalize_name                 *)
(***************************************************************************)
UpperChars == << "A", "B", "C", "D", "E", "F", "G", "H", "I", "J", "K", "L", "M",
                 "N", "O", "P", "Q", "R", "S", "T", "U", "V", "W", "X", "Y", "Z" >>
LowerChars == << "a", "b", "c", "d", "e", "f", "g", "h", "i", "j", "k", "l", "m",
                 "n", "o", "p", "q", "r", "s", "t", "u", "v", "w", "x", "y", "z" >>
DigitChars == {"0", "1", "2", "3", "4", "5", "6", "7", "8", "9"}

LowerChar(c) ==
  IF \E i \in 1..26 : UpperChars[i] = c
  THEN LowerChars[CHOOSE i \in 1..26 : UpperChars[i] = c]
  ELSE c

\* str.lower
Lower(s) == [i \in 1..Len(s) |-> LowerChar(s[i])]

IsSpaceChar(c) == c \in {" ", "\t", "\n", "\r"}
IsAlnumChar(c) == c \in DigitChars \/ \E i \in 1..26 : LowerChars[i] = c

RECURSIVE LStrip(_)
LStrip(s) == IF s # << >> /\ IsSpaceChar(s[1]) THEN LStrip(Tail(s)) ELSE s

RECURSIVE RStrip(_)
RStrip(s) ==
  IF s # << >> /\ IsSpaceChar(s[Len(s)]) THEN RStrip(SubSeq(s, 1, Len(s) - 1)) ELSE s

\* str.strip
Strip(s) == RStrip(LStrip(s))

\* re.sub(r"[()]", "", s)
RemoveParens(s) == SelectSeq(s, LAMBDA c : c \notin {"(", ")"})

RECURSIVE SkipNonAlnum(_)
SkipNonAlnum(s) == IF s # << >> /\ ~IsAlnumChar(s[1]) THEN SkipNonAlnum(Tail(s)) ELSE s

\* re.sub(r"[^a-z0-9]+", " ", s)
RECURSIVE CollapseNonAlnum(_)
CollapseNonAlnum(s) ==
  IF s = << >> THEN << >>
  ELSE IF IsAlnumChar(s[1]) THEN << s[1] >> \o CollapseNonAlnum(Tail(s))
  ELSE << " " >> \o CollapseNonAlnum(SkipNonAlnum(s))

RECURSIVE SkipSpaces(_)
SkipSpaces(s) == IF s # << >> /\ IsSpaceChar(s[1]) THEN SkipSpaces(Tail(s)) ELSE s

\* re.sub(r"\s+", " ", s)
RECURSIVE CollapseSpaces(_)
CollapseSpaces(s) ==
  IF s = << >> THEN << >>
  ELSE IF ~IsSpaceChar(s[1]) THEN << s[1] >> \o CollapseSpaces(Tail(s))
  ELSE << " " >> \o CollapseSpaces(SkipSpaces(s))

\* foodweb._normalize_name
NormalizeName(text) ==
  Strip(CollapseSpaces(CollapseNonAlnum(RemoveParens(Lower(Strip(text))))))

(***************************************************************************)
(* StateVariable hierarchy (state.py) and the test helper ConstantRateVar   *)
(***************************************************************************)
BiotaKinds == {"Biota", "Plant", "Animal"}

\* the attributes every kind shares, and neutral values for those a kind lacks
NewStateVariable(kind, name, value) ==
  [kind |-> kind, name |-> name, value |-> value, biomass |-> None,
   max_growth |-> 0, mortality_rate |-> 0, feeding_prefs |-> << >>,
   consumption_rate |-> 0, assimilation_eff |-> None, c |-> 0]

\* tests/test_stage1.py ConstantRateVar
NewConstantRateVar(name, value, c) ==
  [NewStateVariable("ConstantRateVar", name, value) EXCEPT !.c = c]

\* Biota.__post_init__: value is set from biomass
NewBiota(kind, name, value, biomass, max_growth, mortality_rate) ==
  [NewStateVariable(kind, name, biomass) EXCEPT
     !.biomass = Some(biomass), !.max_growth = max_growth,
     !.mortality_rate = mortality_rate]

NewAnimal(name, value, biomass, max_growth, mortality_rate, feeding_prefs, consumption_rate) ==
  [NewBiota("Animal", name, value, biomass, max_growth, mortality_rate) EXCEPT
     !.feeding_prefs = feeding_prefs, !.consumption_rate = consumption_rate]

\* a rate whose Biota grow without mortality
RateGrowthOnly(sv) ==
  IF sv.kind \in BiotaKinds THEN (sv.max_growth * sv.value) \div 100
  ELSE IF sv.kind = "ConstantRateVar" THEN sv.c
  ELSE 0

\* StateVariable.rate, Nutrient.rate, Detritus.rate (0), Biota.rate (growth - loss)
Rate(sv) ==
  IF sv.kind \in BiotaKinds
  THEN LET growth == (sv.max_growth * sv.value) \div 100
           loss == (sv.mortality_rate * sv.value) \div 100
       IN growth - loss
  ELSE IF sv.kind = "ConstantRateVar" THEN sv.c
  ELSE 0

(***************************************************************************)
(* FoodWeb (foodweb.py).  A dict is a sequence of << key, value >> pairs   *)
(* with distinct keys, in insertion order.                                 *)
(***************************************************************************)
DictHas(d, k) == \E i \in 1..Len(d) : d[i][1] = k
DictGet(d, k) == d[CHOOSE i \in 1..Len(d) : d[i][1] = k][2]
\* d[k] = v: a new key goes last, an old key keeps its place
DictSet(d, k, v) ==
  IF DictHas(d, k)
  THEN [i \in 1..Len(d) |-> IF d[i][1] = k THEN << k, v >> ELSE d[i]]
  ELSE Append(d, << k, v >>)

NewInteraction(predator, prey, observations, diet_percent) ==
  [predator |-> predator, prey |-> prey, observations |-> observations,
   diet_percent |-> diet_percent]

\* d.setdefault(key, []).append(interaction)
IndexPut(index, key, interaction) ==
  DictSet(index, key,
          Append(IF DictHas(index, key) THEN DictGet(index, key) ELSE << >>, interaction))

\* FoodWeb.__post_init__: one index, by the predator name or by its normalized form
RECURSIVE IndexBy(_, _, _)
IndexBy(interactions, normalized, index) ==
  IF interactions = << >> THEN index
  ELSE IndexBy(Tail(interactions), normalized,
               IndexPut(index,
                        IF normalized THEN NormalizeName(interactions[1].predator)
                        ELSE interactions[1].predator,
                        interactions[1]))

NewFoodWeb(interactions, preference_source) ==
  [interactions |-> interactions,
   default_assimilation |-> 70,
   preference_source |-> preference_source,
   predator_index |-> IndexBy(interactions, FALSE, << >>),
   predator_index_norm |-> IndexBy(interactions, TRUE, << >>)]

\* a record weighted by diet_percent alone unless the source is observations
InteractionWeightNoFallback(interaction, preference_source) ==
  IF preference_source = "observations" THEN Some(interaction.observations)
  ELSE interaction.diet_percent

\* the weight one interaction record contributes, None when it is skipped
InteractionWeight(interaction, preference_source) ==
  IF preference_source = "diet_percent" THEN interaction.diet_percent
  ELSE IF preference_source = "observations" THEN Some(interaction.observations)
  ELSE IF ~IsNone(interaction.diet_percent) THEN interaction.diet_percent
  ELSE Some(interaction.observations)

\* weights[interaction.prey] = weight, unless weight is None
WeightsPut(weights, prey, weight) ==
  IF IsNone(weight) THEN weights ELSE DictSet(weights, prey, Val(weight))

\* foodweb._build_weights, the loop over the interaction records
RECURSIVE WeightsFromInteractions(_, _, _)
WeightsFromInteractions(interactions, preference_source, weights) ==
  IF interactions = << >> THEN weights
  ELSE WeightsFromInteractions(
         Tail(interactions), preference_source,
         WeightsPut(weights, interactions[1].prey,
                    InteractionWeight(interactions[1], preference_source)))

\* {prey: weight for prey, weight in preferences.items() if weight is not None}
UnwrapWeights(kept) == [i \in 1..Len(kept) |-> << kept[i][1], Val(kept[i][2]) >>]

\* foodweb._build_weights
BuildWeights(interactions, preferences, preference_source) ==
  IF preferences # << >>
  THEN UnwrapWeights(SelectSeq(preferences, LAMBDA p : ~IsNone(p[2])))
  ELSE WeightsFromInteractions(interactions, preference_source, << >>)

\* the largest member of a non-empty set of indexes
SetMax(S) == CHOOSE i \in S : \A j \in S : j <= i

\* by_name.get(name), from the indexes of the variables called name and of those whose
\* normalized name is that of name; a later variable of a key replaces an earlier one
LastOf(exact, norm) ==
  IF exact # {} THEN SetMax(exact)
  ELSE IF norm # {} THEN SetMax(norm)
  ELSE 0

\* by_name.get(name), then by_norm.get(_normalize_name(name)): the index in state_vars of
\* the variable found, 0 if none
LookupVar(state_vars, name) ==
  LastOf({i \in 1..Len(state_vars) : state_vars[i].name = name},
         {i \in 1..Len(state_vars) :
            NormalizeName(state_vars[i].name) = NormalizeName(name)})

\* one iteration of the first loop over weights.items(), from the prey found
WeightedEntry(state_vars, prey, weight) ==
  IF prey = 0 \/ weight <= 0 THEN << >>
  ELSE IF Max2(state_vars[prey].value, 0) <= 0 THEN << >>
  ELSE << << prey, weight * Max2(state_vars[prey].value, 0) >> >>

\* the first loop over weights.items(): << prey index, weight * availability >>
RECURSIVE WeightedPrey(_, _)
WeightedPrey(state_vars, weights) ==
  IF weights = << >> THEN << >>
  ELSE WeightedEntry(state_vars, LookupVar(state_vars, weights[1][1]), weights[1][2])
       \o WeightedPrey(state_vars, Tail(weights))

\* consumed = min(ingestion * fraction, max(prey.value, 0)) for each weighted prey;
\* an entry that is <= 0 is skipped by the loop and counts as 0
Consumed(state_vars, weighted_prey, ingestion, total_weight) ==
  [k \in 1..Len(weighted_prey) |->
     Max2(Min2((ingestion * weighted_prey[k][2]) \div total_weight,
               Max2(state_vars[weighted_prey[k][1]].value, 0)),
          0)]

\* every predator assimilating at the food web's default efficiency
AssimilationEffDefault(food_web, predator) == food_web.default_assimilation

\* getattr(predator, "assimilation_eff", self.default_assimilation)
AssimilationEff(food_web, predator) ==
  IF IsNone(predator.assimilation_eff) THEN food_web.default_assimilation
  ELSE Val(predator.assimilation_eff)

NamesOf(state_vars) == {state_vars[i].name : i \in 1..Len(state_vars)}

\* acc.rates is the rates dictionary (0 stands for an absent key); acc.taken[i] is the total
\* amount taken from state_vars[i] as prey and acc.eaten[i] the total amount state_vars[i]
\* consumed as predator, both kept only to state the mass bounds
NoRates(state_vars) ==
  [rates |-> [n \in NamesOf(state_vars) |-> 0],
   taken |-> [i \in 1..Len(state_vars) |-> 0],
   eaten |-> [i \in 1..Len(state_vars) |-> 0]]

\* what the second loop takes from the variable of index i
TakenFrom(i, weighted_prey, consumed) ==
  SumSeq([k \in 1..Len(consumed) |-> IF weighted_prey[k][1] = i THEN consumed[k] ELSE 0])

\* what the second loop subtracts from rates[n]
TakenFromName(n, state_vars, weighted_prey, consumed) ==
  SumSeq([k \in 1..Len(consumed) |->
            IF state_vars[weighted_prey[k][1]].name = n THEN consumed[k] ELSE 0])

\* rates[predator.name] += predator_gain * assimilation_eff, if predator_gain > 0
GainOf(n, predator, predator_gain, assimilation_eff) ==
  IF n = predator.name /\ predator_gain > 0
  THEN (predator_gain * assimilation_eff) \div 100
  ELSE 0

\* the second loop over weighted_prey and the predator's gain
Transfer(food_web, state_vars, acc, p, weighted_prey, consumed) ==
  [rates |-> [n \in DOMAIN acc.rates |->
                acc.rates[n] - TakenFromName(n, state_vars, weighted_prey, consumed)
                + GainOf(n, state_vars[p], SumSeq(consumed),
                         AssimilationEff(food_web, state_vars[p]))],
   taken |-> [i \in DOMAIN acc.taken |-> acc.taken[i] + TakenFrom(i, weighted_prey, consumed)],
   eaten |-> [i \in DOMAIN acc.eaten |->
                acc.eaten[i] + (IF i = p THEN SumSeq(consumed) ELSE 0)]]

\* from total_weight and ingestion on
PredatorIngest(food_web, state_vars, acc, p, weighted_prey, total_weight, ingestion) ==
  IF total_weight <= 0 \/ ingestion <= 0 THEN acc
  ELSE Transfer(food_web, state_vars, acc, p, weighted_prey,
                Consumed(state_vars, weighted_prey, ingestion, total_weight))

\* from weighted_prey on
PredatorPrey(food_web, state_vars, acc, p, weighted_prey) ==
  PredatorIngest(food_web, state_vars, acc, p, weighted_prey,
                 SumSeq([k \in 1..Len(weighted_prey) |-> weighted_prey[k][2]]),
                 (state_vars[p].consumption_rate * Max2(state_vars[p].value, 0)) \div 100)

\* from weights on
PredatorWeights(food_web, state_vars, acc, p, weights) ==
  IF weights = << >> THEN acc
  ELSE PredatorPrey(food_web, state_vars, acc, p, WeightedPrey(state_vars, weights))

\* from the predator found (index p, 0 if none) on
PredatorFound(food_web, state_vars, entry, acc, p) ==
  IF p = 0 THEN acc
  ELSE IF state_vars[p].consumption_rate <= 0 THEN acc
  ELSE PredatorWeights(food_web, state_vars, acc, p,
                       BuildWeights(entry[2], state_vars[p].feeding_prefs,
                                    food_web.preference_source))

\* one iteration of the loop over self._predator_index.items()
PredatorStep(food_web, state_vars, entry, acc) ==
  PredatorFound(food_web, state_vars, entry, acc, LookupVar(state_vars, entry[1]))

RECURSIVE PredatorLoop(_, _, _, _)
PredatorLoop(food_web, state_vars, index, acc) ==
  IF index = << >> THEN acc
  ELSE PredatorLoop(food_web, state_vars, Tail(index),
                    PredatorStep(food_web, state_vars, index[1], acc))

\* FoodWeb.compute_rates
ComputeRates(food_web, state_vars) ==
  PredatorLoop(food_web, state_vars, food_web.predator_index, NoRates(state_vars))

(***************************************************************************)
(* FoodWeb.build_foodweb_matrices                                          *)
(***************************************************************************)
\* organisms = [sv for sv in state_vars if isinstance(sv, Biota)]
Organisms(state_vars) == SelectSeq(state_vars, LAMBDA sv : sv.kind \in BiotaKinds)

\* index_by_name[name] and name_by_obj[name]: the last organism called name, 0 if none
IndexByName(organisms, name) ==
  IF \E i \in 1..Len(organisms) : organisms[i].name = name
  THEN SetMax({i \in 1..Len(organisms) : organisms[i].name = name})
  ELSE 0

\* name_by_norm.get(_normalize_name(prey_name)): the name of the last organism of that
\* normalized name, << >> (for None) if there is none
NameByNorm(organisms, prey_name) ==
  IF \E i \in 1..Len(organisms) :
       NormalizeName(organisms[i].name) = NormalizeName(prey_name)
  THEN organisms[SetMax({i \in 1..Len(organisms) :
                           NormalizeName(organisms[i].name) = NormalizeName(prey_name)})].name
  ELSE << >>

\* target_prey: prey_name if it is an organism's name, else its normalized match
TargetPrey(organisms, prey_name) ==
  IF IndexByName(organisms, prey_name) # 0 THEN prey_name
  ELSE NameByNorm(organisms, prey_name)

\* row[col_idx] = weight, unless target_prey is None or empty
RowPut(organisms, row, target_prey, weight) ==
  IF target_prey = << >> THEN row
  ELSE [row EXCEPT ![IndexByName(organisms, target_prey)] = Some(weight)]

\* the loop over weights.items() on one row of a matrix
RECURSIVE RowFill(_, _, _)
RowFill(organisms, weights, row) ==
  IF weights = << >> THEN row
  ELSE RowFill(organisms, Tail(weights),
               RowPut(organisms, row, TargetPrey(organisms, weights[1][1]), weights[1][2]))

\* self._predator_index.get(predator_name, []), and the normalized index when that
\* is empty
InteractionsOf(food_web, predator_name) ==
  IF DictHas(food_web.predator_index, predator_name)
  THEN DictGet(food_web.predator_index, predator_name)
  ELSE IF DictHas(food_web.predator_index_norm, NormalizeName(predator_name))
  THEN DictGet(food_web.predator_index_norm, NormalizeName(predator_name))
  ELSE << >>

\* [None for _ in names]
EmptyRow(organisms) == [c \in 1..Len(organisms) |-> None]

\* the preferences row the loop leaves at index r: rows are written at
\* index_by_name[predator_name], so only the last organism of a name has one
PreferencesRow(food_web, organisms, r) ==
  IF IndexByName(organisms, organisms[r].name) # r THEN EmptyRow(organisms)
  ELSE RowFill(organisms,
               BuildWeights(InteractionsOf(food_web, organisms[r].name),
                            organisms[r].feeding_prefs, food_web.preference_source),
               EmptyRow(organisms))

\* egestion_coeff = 1.0 - max(0.0, min(assimilation_eff, 1.0)), in percent
EgestionCoeff(food_web, predator) ==
  100 - Max2(0, Min2(AssimilationEff(food_web, predator), 100))

\* the egestion row: the coefficient wherever the preferences row has a weight
EgestionRow(food_web, organisms, r, preferences_row) ==
  [c \in 1..Len(organisms) |->
     IF IsNone(preferences_row[c]) THEN None
     ELSE Some(EgestionCoeff(food_web, organisms[r]))]

\* from the organisms and the preferences matrix
MatricesOf(food_web, organisms, preferences) ==
  [names |-> [i \in 1..Len(organisms) |-> organisms[i].name],
   preferences |-> preferences,
   egestion |-> [r \in 1..Len(organisms) |->
                   EgestionRow(food_web, organisms, r, preferences[r])]]

\* from the organisms
MatricesFor(food_web, organisms) ==
  MatricesOf(food_web, organisms,
             [r \in 1..Len(organisms) |-> PreferencesRow(food_web, organisms, r)])

\* FoodWeb.build_foodweb_matrices
BuildFoodwebMatrices(food_web, state_vars) == MatricesFor(food_web, Organisms(state_vars))

(***************************************************************************)
(* ODESolver.integrate                                                     *)
(***************************************************************************)
\* food_web_rates: {} without a food web
FoodWebRates(env, state_vars) ==
  IF IsNone(env.food_web) THEN NoRates(state_vars)
  ELSE ComputeRates(Val(env.food_web), state_vars)

\* rates = [sv.rate(...) + food_web_rates.get(sv.name, 0.0) for sv in state_vars]
RatesList(state_vars, food_web_rates) ==
  [i \in 1..Len(state_vars) |-> Rate(state_vars[i]) + food_web_rates[state_vars[i].name]]

\* the list of rates, all computed on the state before the step
TotalRates(env, state_vars) == RatesList(state_vars, FoodWebRates(env, state_vars).rates)

\* the Euler loop: sv.value += dt_days * r
EulerStep(state_vars, rates, dt_days) ==
  [i \in 1..Len(state_vars) |->
     [state_vars[i] EXCEPT !.value = @ + (dt_days * rates[i])]]

\* An integrate that updates each variable as soon as its rate is known, so that the
\* rates of the later variables read values the step has already changed
RECURSIVE EulerInPlace(_, _, _, _)
EulerInPlace(state_vars, env, dt_days, i) ==
  IF i > Len(state_vars) THEN state_vars
  ELSE EulerInPlace([state_vars EXCEPT ![i].value =
                       @ + (dt_days * TotalRates(env, state_vars)[i])],
                    env, dt_days, i + 1)

IntegrateInPlace(method, state_vars, env, dt_days) ==
  IF method # "Euler" THEN [raised |-> TRUE, state_vars |-> state_vars]
  ELSE [raised |-> FALSE, state_vars |-> EulerInPlace(state_vars, env, dt_days, 1)]

\* An integrate that tests the method only after the Euler loop has run
IntegrateLateCheck(method, state_vars, env, dt_days) ==
  [raised |-> method # "Euler",
   state_vars |-> EulerStep(state_vars, TotalRates(env, state_vars), dt_days)]

\* ODESolver.integrate: raised is TRUE for NotImplementedError
Integrate(method, state_vars, env, dt_days) ==
  IF method # "Euler" THEN [raised |-> TRUE, state_vars |-> state_vars]
  ELSE [raised |-> FALSE,
        state_vars |-> EulerStep(state_vars, TotalRates(env, state_vars), dt_days)]

(***************************************************************************)
(* Simulation.run, one tick of its loop                                    *)
(***************************************************************************)
StrTemperature == << "t", "e", "m", "p", "e", "r", "a", "t", "u", "r", "e" >>
StrWindLoading == << "w", "i", "n", "d", " ", "l", "o", "a", "d", "i", "n", "g" >>
StrLight == << "l", "i", "g", "h", "t" >>

TempModes == {"series", "series_interpolate", "mean_range", "constant"}
WindModes == {"default_series", "time_varying", "constant"}
LightModes == {"constant", "mean_range", "time_varying"}

\* the first variable whose lowered name is `lowered`, 0 if none
FirstNamed(hits) == IF hits = {} THEN 0 ELSE SetMin(hits)

\* sv.value = value on the variable of index i, if any
SetValue(state_vars, i, value) ==
  IF i = 0 THEN state_vars ELSE [state_vars EXCEPT ![i].value = value]

\* a sentinel write that lands on the first variable whatever its name
SetSentinelFirst(state_vars, lowered, value) ==
  SetValue(state_vars, IF state_vars = << >> THEN 0 ELSE 1, value)

\* for sv in state_vars: if sv.name.lower() == lowered: sv.value = value; break
SetSentinel(state_vars, lowered, value) ==
  SetValue(state_vars,
           FirstNamed({i \in 1..Len(state_vars) : Lower(state_vars[i].name) = lowered}),
           value)

\* {sv.name: sv.value for sv in state_vars}: the last variable of a name gives its value
SnapshotValues(state_vars) ==
  [n \in NamesOf(state_vars) |->
     state_vars[SetMax({i \in 1..Len(state_vars) : state_vars[i].name = n})].value]

\* the three snapshot keys of a tick with temperature forcing
KeyEpilimnion ==
  << "T", "e", "m", "p", "e", "r", "a", "t", "u", "r", "e", "_",
     "E", "p", "i", "l", "i", "m", "n", "i", "o", "n" >>
KeyHypolimnion ==
  << "T", "e", "m", "p", "e", "r", "a", "t", "u", "r", "e", "_",
     "H", "y", "p", "o", "l", "i", "m", "n", "i", "o", "n" >>
KeyStratified ==
  << "T", "e", "m", "p", "e", "r", "a", "t", "u", "r", "e", "_",
     "S", "t", "r", "a", "t", "i", "f", "i", "e", "d" >>

\* epi_temp, hypo_temp and stratified under their keys (True and False are kept as
\* the 1 and 0 they compare equal to)
TemperatureKeys(pair) ==
  (KeyEpilimnion :> Val(pair.epi)) @@ (KeyHypolimnion :> Val(pair.hypo))
    @@ (KeyStratified :> IF pair.stratified THEN 1 ELSE 0)

\* the snapshot of a tick: one dict, the values by name and, when temperature is
\* forced, the three temperature keys written over whatever those names held
Snapshot(state_vars, temp_on, pair) ==
  IF temp_on THEN TemperatureKeys(pair) @@ SnapshotValues(state_vars)
  ELSE SnapshotValues(state_vars)

\* the log the model keeps is the first MaxLog entries of self._outputs
MaxRuns == 2
TicksPerRun == 4
MaxLog == MaxRuns * TicksPerRun

\* A log that takes a new entry at the front: self._outputs.insert(0, entry)
LogInsertFirst(outputs, entry) ==
  IF Len(outputs) < MaxLog THEN << entry >> \o outputs ELSE outputs

\* self._outputs.append(entry)
LogAppend(outputs, entry) ==
  IF Len(outputs) < MaxLog THEN Append(outputs, entry) ELSE outputs

\* A tick that empties the log when it raises
RaisedClearingLog(error, env, state_vars, outputs, t) ==
  [error |-> error, env |-> env, state_vars |-> state_vars, outputs |-> << >>,
   t |-> t, integrated |-> << >>]

\* A tick that records its snapshot before it raises
RaisedAfterSnapshot(error, env, state_vars, outputs, t) ==
  [error |-> error, env |-> env, state_vars |-> state_vars,
   outputs |-> LogAppend(outputs, << t, Snapshot(state_vars, FALSE, Missing) >>),
   t |-> t, integrated |-> << >>]

\* a tick that raises `error` leaves through the exception
Raised(error, env, state_vars, outputs, t) ==
  [error |-> error, env |-> env, state_vars |-> state_vars, outputs |-> outputs,
   t |-> t, integrated |-> << >>]

\* t = t + timedelta(days=dt_days), which raises OverflowError outside datetime's range
Advance(env, state_vars, fed, outputs, t, dt_days) ==
  [error |-> IF InDateRange(t + dt_days) THEN "" ELSE "OverflowError",
   env |-> env, state_vars |-> state_vars, outputs |-> outputs,
   t |-> IF InDateRange(t + dt_days) THEN t + dt_days ELSE t,
   integrated |-> << fed >>]

\* A water balance that forgets the outflow: self.env.volume += inflow * dt_days
TickHydrologyInflowOnly(env, fed, outputs, t, dt_days, temp_on, pair, step) ==
  IF step.raised THEN Raised("NotImplementedError", env, fed, outputs, t)
  ELSE Advance([env EXCEPT !.volume = @ + (GetInflow(env, t) * dt_days)],
               step.state_vars, fed,
               LogAppend(outputs, << t, Snapshot(step.state_vars, temp_on, pair) >>),
               t, dt_days)

\* A water balance that also refreshes the mean depth from the new volume
TickHydrologyWithDepth(env, fed, outputs, t, dt_days, temp_on, pair, step) ==
  IF step.raised THEN Raised("NotImplementedError", env, fed, outputs, t)
  ELSE Advance([env EXCEPT !.volume = @ + ((GetInflow(env, t) - GetOutflow(env, t)) * dt_days),
                           !.depth_mean = (env.volume
                                           + (GetInflow(env, t) - GetOutflow(env, t)) * dt_days)
                                          \div env.area],
               step.state_vars, fed,
               LogAppend(outputs, << t, Snapshot(step.state_vars, temp_on, pair) >>),
               t, dt_days)

\* A tick whose snapshot carries the time the tick ends at: t + dt_days
TickHydrologyStampAfter(env, fed, outputs, t, dt_days, temp_on, pair, step) ==
  IF step.raised THEN Raised("NotImplementedError", env, fed, outputs, t)
  ELSE Advance([env EXCEPT !.volume = @ + ((GetInflow(env, t) - GetOutflow(env, t)) * dt_days)],
               step.state_vars, fed,
               LogAppend(outputs,
                         << t + dt_days, Snapshot(step.state_vars, temp_on, pair) >>),
               t, dt_days)

\* steps 2) to 4) of the loop body, after integrate returned `step` on `fed`
TickHydrology(env, fed, outputs, t, dt_days, temp_on, pair, step) ==
  IF step.raised THEN Raised("NotImplementedError", env, fed, outputs, t)
  ELSE Advance([env EXCEPT !.volume = @ + ((GetInflow(env, t) - GetOutflow(env, t)) * dt_days)],
               step.state_vars, fed,
               LogAppend(outputs, << t, Snapshot(step.state_vars, temp_on, pair) >>),
               t, dt_days)

\* the light block, then step 1) of the loop body
TickLight(env, state_vars, method, outputs, t, dt_days, temp_on, pair, light_on, light_value) ==
  IF light_on /\ IsNone(light_value) THEN Raised("ValueError", env, state_vars, outputs, t)
  ELSE TickHydrology(env,
                     IF light_on THEN SetSentinel(state_vars, StrLight, Val(light_value))
                     ELSE state_vars,
                     outputs, t, dt_days, temp_on, pair,
                     Integrate(method,
                               IF light_on
                               THEN SetSentinel(state_vars, StrLight, Val(light_value))
                               ELSE state_vars,
                               env, dt_days))

\* the wind block
TickWind(env, state_vars, method, outputs, t, dt_days, temp_on, pair, wind_on, wind_value) ==
  IF wind_on /\ IsNone(wind_value) THEN Raised("ValueError", env, state_vars, outputs, t)
  ELSE TickLight(env,
                 IF wind_on THEN SetSentinel(state_vars, StrWindLoading, Val(wind_value))
                 ELSE state_vars,
                 method, outputs, t, dt_days, temp_on, pair,
                 env.light_forcing_mode \in LightModes,
                 IF env.light_forcing_mode \in LightModes THEN GetLight(env, t) ELSE None)

\* the temperature block
TickTemperature(env, state_vars, method, outputs, t, dt_days, temp_on, pair) ==
  IF temp_on /\ (IsNone(pair.epi) \/ IsNone(pair.hypo))
  THEN Raised("ValueError", env, state_vars, outputs, t)
  ELSE TickWind(env,
                IF temp_on THEN SetSentinel(state_vars, StrTemperature, Val(pair.epi))
                ELSE state_vars,
                method, outputs, t, dt_days, temp_on, pair,
                env.wind_forcing_mode \in WindModes,
                IF env.wind_forcing_mode \in WindModes THEN GetWind(env, t) ELSE None)

\* The body of `while t < time_end`: error is "" when the tick completes and t advances
RunTick(env, state_vars, method, outputs, t, dt_days) ==
  TickTemperature(env, state_vars, method, outputs, t, dt_days,
                  env.temp_forcing_mode \in TempModes,
                  IF env.temp_forcing_mode \in TempModes THEN GetTemperaturePair(env, t)
                  ELSE Missing)

\* A run that always starts at utcnow()
StartTimeNow(env, now) == now

\* the start time of run: earliest inflow key, else earliest outflow key, else utcnow()
StartTime(env, now) ==
  IF DOMAIN env.inflow_series # {} THEN SetMin(DOMAIN env.inflow_series)
  ELSE IF DOMAIN env.outflow_series # {} THEN SetMin(DOMAIN env.outflow_series)
  ELSE now

(***************************************************************************)
(* Scenarios: the environments and state-variable collections a loader may *)
(* hand to Simulation.  Dates are the first days of year 1, so that a run  *)
(* stepping backwards reaches datetime.min within a few ticks.             *)
(***************************************************************************)
NameX == << "X" >>
NameTemperature == << "T", "e", "m", "p", "e", "r", "a", "t", "u", "r", "e" >>
NameWindLoading == << "W", "i", "n", "d", " ", "L", "o", "a", "d", "i", "n", "g" >>
NameLight == << "l", "i", "g", "h", "t" >>
NameNitrate == << "N", "i", "t", "r", "a", "t", "e" >>
NameTestBiota == << "T", "e", "s", "t", "B", "i", "o", "t", "a" >>
NameAlgae == << "A", "l", "g", "a", "e" >>
NameFish == << "F", "i", "s", "h" >>
NameDetritus == << "D", "e", "t", "r", "i", "t", "u", "s" >>

\* tests/test_stage1.py _mk_env_with_flows, with a constant forcing of every family
BaseEnv ==
  [volume |-> 1000, area |-> 1000, depth_mean |-> 5, depth_max |-> 25,
   inflow_series |-> [d \in 2..4 |-> 10],
   outflow_series |-> [d \in 2..4 |-> 5],
   temp_epi_series |-> EmptySeries, temp_hypo_series |-> EmptySeries,
   temp_epi_constant |-> Some(1000), temp_hypo_constant |-> None,
   temp_epi_mean |-> None, temp_epi_range |-> None,
   temp_hypo_mean |-> None, temp_hypo_range |-> None,
   temp_forcing_mode |-> "constant",
   wind_series |-> EmptySeries, wind_constant |-> Some(3000), wind_mean |-> None,
   wind_forcing_mode |-> "constant",
   light_series |-> EmptySeries, light_constant |-> Some(100),
   light_mean |-> None, light_range |-> None,
   light_forcing_mode |-> "constant",
   food_web |-> None]

TempCases(e) ==
  { [e EXCEPT !.temp_epi_constant = None],
    [e EXCEPT !.temp_epi_constant = Some(1000), !.temp_hypo_constant = Some(1301)],
    [e EXCEPT !.temp_forcing_mode = "series",
              !.temp_epi_series = (2 :> 1000) @@ (3 :> 1100) @@ (4 :> 1200),
              !.temp_hypo_series = (2 :> 400) @@ (3 :> 900)],
    [e EXCEPT !.temp_forcing_mode = "series_interpolate",
              !.temp_epi_series = (1 :> 900) @@ (6 :> 1400),
              !.temp_hypo_series = (1 :> 300) @@ (4 :> 1200)],
    [e EXCEPT !.temp_forcing_mode = "mean_range",
              !.temp_epi_mean = Some(1500), !.temp_epi_range = Some(1000),
              !.temp_hypo_mean = Some(800), !.temp_hypo_range = Some(200)],
    [e EXCEPT !.temp_forcing_mode = "off"] }

WindCases(e) ==
  { [e EXCEPT !.wind_constant = None],
    [e EXCEPT !.wind_forcing_mode = "default_series", !.wind_mean = Some(3000)],
    [e EXCEPT !.wind_forcing_mode = "time_varying",
              !.wind_series = (2 :> 5000) @@ (4 :> 7000)] }

LightCases(e) ==
  { [e EXCEPT !.light_forcing_mode = "time_varying"],
    [e EXCEPT !.light_forcing_mode = "mean_range",
              !.light_mean = Some(100), !.light_range = Some(50)] }

ForcingCases(e) == {e} \cup TempCases(e) \cup WindCases(e) \cup LightCases(e)

FlowCases(e) ==
  { e,
    [e EXCEPT !.inflow_series = (3 :> 10) @@ (5 :> 30), !.outflow_series = EmptySeries],
    [e EXCEPT !.inflow_series = EmptySeries, !.outflow_series = (3 :> 5)],
    [e EXCEPT !.inflow_series = EmptySeries, !.outflow_series = EmptySeries] }

\* three forcing sentinels, an inert nutrient and a growing biota
VarsSentinels ==
  << NewStateVariable("StateVariable", NameTemperature, 0),
     NewStateVariable("StateVariable", NameWindLoading, 0),
     NewStateVariable("StateVariable", NameLight, 0),
     [NewStateVariable("Nutrient", NameNitrate, 4) EXCEPT !.kind = "Nutrient"],
     NewBiota("Biota", NameTestBiota, 100, 100, 20, 10) >>

VarsConstantRate == << NewConstantRateVar(NameX, 0, 5) >>

VarsWeb ==
  << NewBiota("Plant", NameAlgae, 100, 100, 0, 0),
     NewAnimal(NameFish, 20, 20, 0, 0, << >>, 50) >>

\* a nutrient named like a snapshot key, and a nutrient sharing its name with a
\* later variable that changes
VarsShadowed ==
  << NewStateVariable("Nutrient", KeyEpilimnion, 5),
     NewStateVariable("Nutrient", NameX, 4),
     NewConstantRateVar(NameX, 0, 5) >>

\* the food-web pair behind a detritus pool no interaction names
VarsWebDetritus == << NewStateVariable("Detritus", NameDetritus, 7) >> \o VarsWeb

WebFishAlgae ==
  NewFoodWeb(<< NewInteraction(NameFish, NameAlgae, 3, Some(50)) >>, "diet_percent")

Scenario(e, svs, method) == [env |-> e, state_vars |-> svs, method |-> method]

Scenarios ==
  {Scenario(f, VarsSentinels, "Euler") :
     f \in UNION {FlowCases(e) : e \in ForcingCases(BaseEnv)}}
  \cup {Scenario(f, svs, "Euler") :
          f \in FlowCases(BaseEnv), svs \in {VarsConstantRate, << >>}}
  \cup {Scenario([f EXCEPT !.food_web = Some(WebFishAlgae)], VarsWeb, "Euler") :
          f \in FlowCases(BaseEnv)}
  \cup {Scenario(f, VarsConstantRate, "RK4") : f \in FlowCases(BaseEnv)}
  \cup {Scenario(BaseEnv, VarsShadowed, "Euler"),
        Scenario([BaseEnv EXCEPT !.food_web = Some(WebFishAlgae)], VarsWebDetritus, "Euler")}

\* the arguments of run, and the values utcnow() may return
TimeEnds == {3, 5}
DtValues == {-1, 0, 1, 2}
NowDates == {3, 4}

(***************************************************************************)
(* State                                                                   *)
(***************************************************************************)
VARIABLES
  env,         \* Simulation.env
  state_vars,  \* Simulation.state_vars
  method,      \* Simulation.solver.method
  outputs,     \* Simulation._outputs
  pc,          \* "idle", "running" (inside run's loop), "returned", "raised"
  error,       \* the exception that ended the last call, "" if none
  t,           \* run's local t
  time_end,    \* run's argument
  dt_days,     \* run's argument; the dt_days of the last direct integrate call
  nruns,       \* how many times run was called
  ncalls,      \* how many times integrate was called directly
  run_base,    \* len(_outputs) when the current run was called
  run_start,   \* the start time the current run chose
  at_call,     \* env and state_vars as they were when the current run was called
  last_call,   \* << the state_vars handed to the last integrate call >>, << >> before it
  log_parity,  \* len(self._outputs) modulo 2: outputs keeps only its first MaxLog entries
  replies,     \* the accessor calls made on env so far, each with the value it returned
  twin         \* a second Simulation built from the same inputs

vars == << env, state_vars, method, outputs, pc, error, t, time_end, dt_days,
           nruns, ncalls, run_base, run_start, at_call, last_call, log_parity,
           replies, twin >>

NoTwin == [pc |-> "none"]

\* Simulation(env, state_vars, solver) built from scenario s
InitSim(s) ==
  /\ env = s.env
  /\ state_vars = s.state_vars
  /\ method = s.method
  /\ outputs = << >>
  /\ pc = "idle"
  /\ error = ""
  /\ t = 0
  /\ time_end = 0
  /\ dt_days = 0
  /\ nruns = 0
  /\ ncalls = 0
  /\ run_base = 0
  /\ run_start = 0
  /\ at_call = [env |-> s.env, state_vars |-> s.state_vars]
  /\ last_call = << >>
  /\ log_parity = 0
  /\ replies = << >>

Init ==
  /\ \E s \in Scenarios : InitSim(s)
  /\ twin = NoTwin

(***************************************************************************)
(* Simulation.run                                                          *)
(***************************************************************************)
\* A run that enters its loop whatever the collection holds
RunCallSimNoGuard(te, dt, now) ==
  /\ pc \in {"idle", "returned", "raised"}
  /\ nruns < MaxRuns
  /\ nruns' = nruns + 1
  /\ time_end' = te
  /\ dt_days' = dt
  /\ run_base' = Len(outputs)
  /\ at_call' = [env |-> env, state_vars |-> state_vars]
  /\ error' = ""
  /\ pc' = "running"
  /\ t' = StartTime(env, now)
  /\ run_start' = StartTime(env, now)
  /\ UNCHANGED << env, state_vars, method, outputs, ncalls, last_call, log_parity,
                  replies >>

\* run is called: the empty-collection return and the choice of the start time
RunCallSim(te, dt, now) ==
  /\ pc \in {"idle", "returned", "raised"}
  /\ nruns < MaxRuns
  /\ nruns' = nruns + 1
  /\ time_end' = te
  /\ dt_days' = dt
  /\ run_base' = Len(outputs)
  /\ at_call' = [env |-> env, state_vars |-> state_vars]
  /\ error' = ""
  /\ IF state_vars = << >>
     THEN /\ pc' = "returned"
          /\ UNCHANGED << t, run_start >>
     ELSE /\ pc' = "running"
          /\ t' = StartTime(env, now)
          /\ run_start' = StartTime(env, now)
  /\ UNCHANGED << env, state_vars, method, outputs, ncalls, last_call, log_parity,
                  replies >>

RunCall(te, dt, now) ==
  /\ RunCallSim(te, dt, now)
  /\ UNCHANGED twin

\* the effect of one iteration whose outcome is r
TickTo(r) ==
  /\ env' = r.env
  /\ state_vars' = r.state_vars
  /\ outputs' = r.outputs
  /\ t' = r.t
  /\ error' = r.error
  /\ pc' = IF r.error = "" THEN "running" ELSE "raised"
  /\ last_call' = IF r.integrated = << >> THEN last_call ELSE r.integrated
  /\ log_parity' = IF r.integrated = << >> THEN log_parity ELSE 1 - log_parity

\* A loop that also runs the tick at time_end: while t <= time_end
TickInclusive ==
  /\ pc = "running"
  /\ t <= time_end
  /\ TickTo(RunTick(env, state_vars, method, outputs, t, dt_days))
  /\ UNCHANGED << method, time_end, dt_days, nruns, ncalls, run_base, run_start,
                  at_call, replies, twin >>

\* one iteration of the loop
Tick ==
  /\ pc = "running"
  /\ t < time_end
  /\ TickTo(RunTick(env, state_vars, method, outputs, t, dt_days))
  /\ UNCHANGED << method, time_end, dt_days, nruns, ncalls, run_base, run_start,
                  at_call, replies, twin >>

\* A loop left only when t is exactly time_end: while t != time_end
RunReturnExact ==
  /\ pc = "running"
  /\ t = time_end
  /\ pc' = "returned"
  /\ UNCHANGED << env, state_vars, method, outputs, error, t, time_end, dt_days,
                  nruns, ncalls, run_base, run_start, at_call, last_call, log_parity,
                  replies, twin >>

\* the loop condition fails: run returns
RunReturn ==
  /\ pc = "running"
  /\ ~(t < time_end)
  /\ pc' = "returned"
  /\ UNCHANGED << env, state_vars, method, outputs, error, t, time_end, dt_days,
                  nruns, ncalls, run_base, run_start, at_call, last_call, log_parity,
                  replies, twin >>

Next ==
  \/ \E te \in TimeEnds, dt \in DtValues, now \in NowDates : RunCall(te, dt, now)
  \/ Tick
  \/ RunReturn

Spec == Init /\ [][Next]_vars

\* The loop condition holds.  Tick is the only action of Next enabled in such a
\* state and every Tick step changes pc or log_parity, so TickEnabled is
\* ENABLED << Tick >>_vars and the steps << TickEnabled >>_vars are the Tick steps.
TickEnabled == pc = "running" /\ t < time_end

\* weak fairness of Tick, in terms of TickEnabled
TickFair == []<>(~TickEnabled) \/ []<><< TickEnabled >>_vars

\* run executes its loop to the end: an enabled iteration or return is taken
FairSpec == Spec /\ WF_vars(RunReturn) /\ TickFair

(***************************************************************************)
(* ODESolver.integrate called directly, as tests/test_stage1.py does, on   *)
(* collections with a food web                                             *)
(***************************************************************************)
NamePike == << "P", "i", "k", "e" >>
NameFishUpper == << "F", "I", "S", "H", " " >>
NameAlgaeLower == << "a", "l", "g", "a", "e" >>

\* a plant, two animals that may feed on it, a constant-rate variable and a growing biota
StepVars(prey_value, consumption_rate, feeding_prefs) ==
  << NewBiota("Plant", NameAlgae, prey_value, prey_value, 0, 0),
     NewAnimal(NameFish, 20, 20, 0, 0, feeding_prefs, consumption_rate),
     NewAnimal(NamePike, 200, 200, 0, 0, << >>, 100),
     NewConstantRateVar(NameX, 0, 5),
     NewBiota("Biota", NameTestBiota, 100, 100, 20, 10) >>

\* two predators on one prey, the second also feeding on the first
WebTwoPredators(source) ==
  NewFoodWeb(<< NewInteraction(NameFish, NameAlgae, 3, Some(50)),
                NewInteraction(NamePike, NameAlgae, 1, Some(40)),
                NewInteraction(NamePike, NameFish, 2, Some(60)) >>, source)

\* one predator and one prey, each written in two spellings
WebSpellings(source) ==
  NewFoodWeb(<< NewInteraction(NameFish, NameAlgae, 3, Some(50)),
                NewInteraction(NameFishUpper, NameAlgaeLower, 1, None) >>, source)

PreferenceSources == {"diet_percent", "observations", "feeding_prefs"}

StepWebs ==
  {None, Some(WebFishAlgae)}
  \cup {Some(WebTwoPredators(s)) : s \in PreferenceSources}
  \cup {Some(WebSpellings(s)) : s \in PreferenceSources}

PreyValues == {-10, 0, 5, 100}
ConsumptionRates == {0, 50, 100}
FeedingPrefs == {<< >>, << << NameAlgae, Some(100) >>, << NameX, None >> >>}

StepScenarios ==
  {Scenario([BaseEnv EXCEPT !.food_web = w], StepVars(pv, cr, fp), "Euler") :
     w \in StepWebs, pv \in PreyValues, cr \in ConsumptionRates, fp \in FeedingPrefs}
  \cup {Scenario([BaseEnv EXCEPT !.food_web = w], StepVars(100, 50, << >>), "RK4") :
          w \in StepWebs}

MaxCalls == 2

InitStep ==
  /\ \E s \in StepScenarios : InitSim(s)
  /\ twin = NoTwin

\* the effect of an integrate call whose outcome is step
IntegrateTo(step) ==
  /\ state_vars' = step.state_vars
  /\ error' = IF step.raised THEN "NotImplementedError" ELSE ""

\* solver.integrate(state_vars, env, t, dt_days)
IntegrateCall(dt) ==
  /\ pc = "idle"
  /\ ncalls < MaxCalls
  /\ ncalls' = ncalls + 1
  /\ dt_days' = dt
  /\ last_call' = << state_vars >>
  /\ IntegrateTo(Integrate(method, state_vars, env, dt))
  /\ UNCHANGED << env, method, outputs, pc, t, time_end, nruns, run_base, run_start,
                  at_call, log_parity, replies, twin >>

NextStep == \E dt \in DtValues : IntegrateCall(dt)

SpecStep == InitStep /\ [][NextStep]_vars

(***************************************************************************)
(* Two executions of run from equal inputs: the second Simulation, twin,   *)
(* is built from the same scenario, is called with the same time_end and   *)
(* dt_days, and runs once the first has ended.  Only utcnow() is free to   *)
(* differ between the two.                                                 *)
(***************************************************************************)
NewTwin(s) ==
  [pc |-> "idle", env |-> s.env, state_vars |-> s.state_vars, outputs |-> << >>,
   error |-> "", t |-> 0]

InitTwin == \E s \in Scenarios : InitSim(s) /\ twin = NewTwin(s)

\* the twin's run is called
TwinStart(now) ==
  IF twin.state_vars = << >> THEN [twin EXCEPT !.pc = "returned"]
  ELSE [twin EXCEPT !.pc = "running", !.t = StartTime(twin.env, now)]

\* both executions are called with the same arguments
TwinRunCall(te, dt, now1, now2) ==
  /\ pc = "idle"
  /\ twin.pc = "idle"
  /\ RunCallSim(te, dt, now1)
  /\ twin' = TwinStart(now2)

\* the effect on the twin of one iteration whose outcome is r
TwinTo(r) ==
  twin' = [pc |-> IF r.error = "" THEN "running" ELSE "raised",
           env |-> r.env, state_vars |-> r.state_vars, outputs |-> r.outputs,
           error |-> r.error, t |-> r.t]

\* one iteration of the twin's loop
TwinTick ==
  /\ pc \in {"returned", "raised"}
  /\ twin.pc = "running"
  /\ twin.t < time_end
  /\ TwinTo(RunTick(twin.env, twin.state_vars, method, twin.outputs, twin.t, dt_days))
  /\ UNCHANGED << env, state_vars, method, outputs, pc, error, t, time_end, dt_days,
                  nruns, ncalls, run_base, run_start, at_call, last_call,
                  log_parity, replies >>

\* the twin's loop condition fails
TwinReturn ==
  /\ pc \in {"returned", "raised"}
  /\ twin.pc = "running"
  /\ ~(twin.t < time_end)
  /\ twin' = [twin EXCEPT !.pc = "returned"]
  /\ UNCHANGED << env, state_vars, method, outputs, pc, error, t, time_end, dt_days,
                  nruns, ncalls, run_base, run_start, at_call, last_call,
                  log_parity, replies >>

NextTwin ==
  \/ \E te \in TimeEnds, dt \in DtValues, now1 \in NowDates, now2 \in NowDates :
       TwinRunCall(te, dt, now1, now2)
  \/ Tick
  \/ RunReturn
  \/ TwinTick
  \/ TwinReturn

SpecTwin == InitTwin /\ [][NextTwin]_vars

(***************************************************************************)
(* Queries: the forcing accessors of one Environment called directly, in   *)
(* any order, each reply recorded with the date it was asked for.          *)
(***************************************************************************)
\* epilimnion/hypolimnion settings of every temperature mode, with both layers, one
\* layer, or neither resolving at the dates asked for
TempQueryCases(e) ==
  { [e EXCEPT !.temp_epi_constant = Some(1000), !.temp_hypo_constant = Some(1300)],
    [e EXCEPT !.temp_epi_constant = Some(1000), !.temp_hypo_constant = Some(699)],
    [e EXCEPT !.temp_epi_constant = Some(1000), !.temp_hypo_constant = None],
    [e EXCEPT !.temp_epi_constant = None, !.temp_hypo_constant = Some(800)],
    [e EXCEPT !.temp_epi_constant = None, !.temp_hypo_constant = None],
    [e EXCEPT !.temp_forcing_mode = "mean_range",
              !.temp_epi_mean = Some(1500), !.temp_epi_range = Some(1000),
              !.temp_hypo_mean = Some(800), !.temp_hypo_range = Some(200)],
    [e EXCEPT !.temp_forcing_mode = "mean_range",
              !.temp_epi_mean = Some(1500), !.temp_epi_range = Some(1000)],
    [e EXCEPT !.temp_forcing_mode = "mean_range",
              !.temp_hypo_mean = Some(800), !.temp_hypo_range = Some(200)],
    [e EXCEPT !.temp_forcing_mode = "mean_range",
              !.temp_epi_mean = Some(1500), !.temp_hypo_range = Some(200)],
    [e EXCEPT !.temp_forcing_mode = "series",
              !.temp_epi_series = (2 :> 1000) @@ (3 :> 1100) @@ (4 :> 1200),
              !.temp_hypo_series = (2 :> 700) @@ (3 :> 799) @@ (5 :> 900)],
    [e EXCEPT !.temp_forcing_mode = "series",
              !.temp_epi_series = (2 :> 1000) @@ (3 :> 1100),
              !.temp_hypo_series = EmptySeries],
    [e EXCEPT !.temp_forcing_mode = "series",
              !.temp_epi_series = EmptySeries,
              !.temp_hypo_series = (2 :> 700) @@ (3 :> 799)],
    [e EXCEPT !.temp_forcing_mode = "series_interpolate",
              !.temp_epi_series = (2 :> 1000) @@ (6 :> 1400),
              !.temp_hypo_series = (1 :> 600) @@ (4 :> 900)],
    [e EXCEPT !.temp_forcing_mode = "series_interpolate",
              !.temp_epi_series = (3 :> 1000) @@ (4 :> 1400),
              !.temp_hypo_series = EmptySeries],
    [e EXCEPT !.temp_forcing_mode = "series_interpolate",
              !.temp_epi_series = (4 :> 1000) @@ (5 :> 1400),
              !.temp_hypo_series = (2 :> 600) @@ (5 :> 900)] }

\* inflow series: three days of year 2, two days of leap year 4 with Feb 29, a
\* series reaching across a year end, and a single point
FlowQueryCases(e) ==
  { [e EXCEPT !.inflow_series = (ToOrdinal(2, 1, 10) :> 10) @@ (ToOrdinal(2, 1, 20) :> 30)
                                  @@ (ToOrdinal(2, 2, 9) :> 10)],
    [e EXCEPT !.inflow_series = (ToOrdinal(4, 2, 29) :> 40) @@ (ToOrdinal(4, 3, 10) :> 20)],
    [e EXCEPT !.inflow_series = (ToOrdinal(1, 12, 27) :> 50) @@ (ToOrdinal(2, 1, 6) :> 70)
                                  @@ (ToOrdinal(2, 1, 10) :> 10)],
    [e EXCEPT !.inflow_series = (ToOrdinal(2, 1, 10) :> 10) @@ (ToOrdinal(2, 1, 20) :> 30)
                                  @@ (ToOrdinal(3, 1, 10) :> 90)],
    [e EXCEPT !.inflow_series = (ToOrdinal(2, 1, 20) :> 30)] }

\* wind_mean of the default wind series: unset, negative, zero, the default 3.0 and
\* values small enough for the harmonics to reach below zero
WindQueryCases(e) ==
  { [e EXCEPT !.wind_forcing_mode = "default_series", !.wind_mean = m] :
      m \in {None, Some(-1000), Some(0), Some(1), Some(500), Some(3000)} }

QueryEnvs == TempQueryCases(BaseEnv) \cup FlowQueryCases(BaseEnv) \cup WindQueryCases(BaseEnv)

TempQueryDates == 2..5
FlowQueryDates ==
  { ToOrdinal(2, 1, 10), ToOrdinal(2, 1, 13), ToOrdinal(2, 1, 20), ToOrdinal(2, 1, 30),
    ToOrdinal(2, 1, 1), ToOrdinal(1, 1, 20), ToOrdinal(3, 1, 20), ToOrdinal(4, 2, 9),
    ToOrdinal(3, 3, 10), ToOrdinal(8, 2, 29) }
WindQueryDates ==
  { ToOrdinal(1, 1, 3), ToOrdinal(1, 1, 6), ToOrdinal(1, 1, 11), ToOrdinal(2, 1, 6),
    ToOrdinal(4, 1, 11) }

MaxQueries == 2

\* one recorded call: the accessor, its argument, and what it returned
Reply(op, at, pair, value) == [op |-> op, at |-> at, pair |-> pair, value |-> value]

InitQuery ==
  /\ \E e \in QueryEnvs : InitSim(Scenario(e, VarsSentinels, "Euler"))
  /\ twin = NoTwin

Answer(r) ==
  /\ Len(replies) < MaxQueries
  /\ replies' = Append(replies, r)
  /\ UNCHANGED << env, state_vars, method, outputs, pc, error, t, time_end, dt_days,
                  nruns, ncalls, run_base, run_start, at_call, last_call, log_parity,
                  twin >>

\* env.get_temperature_pair(d)
QueryTemperature(d) == Answer(Reply("get_temperature_pair", d, GetTemperaturePair(env, d), None))

\* env.get_inflow(d)
QueryInflow(d) == Answer(Reply("get_inflow", d, Missing, Some(GetInflow(env, d))))

\* env.get_wind(d)
QueryWind(d) == Answer(Reply("get_wind", d, Missing, GetWind(env, d)))

NextQuery ==
  \/ \E d \in TempQueryDates : QueryTemperature(d)
  \/ \E d \in FlowQueryDates : QueryInflow(d)
  \/ \E d \in WindQueryDates : QueryWind(d)

SpecQuery == InitQuery /\ [][NextQuery]_vars

(***************************************************************************)
(* Resolver calls on float series: Environment._get_series_value called    *)
(* directly on a series and a date, each reply recorded.                   *)
(***************************************************************************)
\* two points from Feb 29 of leap year 4; the same values ten days apart in year 2;
\* three points of year 2; two years with a point one year after the first; one point
FloatSeriesCases ==
  { (ToOrdinal(4, 2, 29) :> 5) @@ (ToOrdinal(4, 3, 10) :> 40),
    (ToOrdinal(2, 1, 10) :> 3) @@ (ToOrdinal(2, 1, 20) :> 22),
    (ToOrdinal(2, 1, 10) :> 22) @@ (ToOrdinal(2, 1, 20) :> 3) @@ (ToOrdinal(2, 2, 9) :> 12),
    (ToOrdinal(2, 1, 10) :> 10) @@ (ToOrdinal(2, 1, 20) :> 30) @@ (ToOrdinal(3, 1, 10) :> 80),
    (ToOrdinal(2, 1, 20) :> 30) }

FloatQueryDates ==
  { ToOrdinal(3, 2, 28), ToOrdinal(4, 3, 1), ToOrdinal(2, 1, 13), ToOrdinal(2, 1, 19),
    ToOrdinal(2, 1, 20), ToOrdinal(2, 1, 1), ToOrdinal(5, 1, 25) }

InitFloat ==
  /\ InitSim(Scenario(BaseEnv, VarsSentinels, "Euler"))
  /\ twin = NoTwin

\* Environment._get_series_value(series, d)
ResolveCall(series, d) ==
  Answer([op |-> "_get_series_value", series |-> series, at |-> d,
          result |-> FloatSeriesValue(series, d)])

NextFloat == \E series \in FloatSeriesCases : \E d \in FloatQueryDates : ResolveCall(series, d)

SpecFloat == InitFloat /\ [][NextFloat]_vars

(***************************************************************************)
(* Probes: the five forcing accessors called on the Environment of a       *)
(* Simulation before a run, between its ticks and after it.                *)
(***************************************************************************)
\* constant forcing; then exact-match temperature, default wind, seasonal light and
\* a sparse inflow; then seasonal temperature, a wind series and a light series
\* that is empty, so that the first tick of a run raises
ProbeEnvs ==
  { BaseEnv,
    [BaseEnv EXCEPT !.temp_forcing_mode = "series",
                    !.temp_epi_series = (2 :> 1000) @@ (3 :> 1100) @@ (4 :> 1200),
                    !.temp_hypo_series = (2 :> 400) @@ (3 :> 700) @@ (4 :> 900),
                    !.wind_forcing_mode = "default_series", !.wind_mean = Some(3000),
                    !.light_forcing_mode = "mean_range",
                    !.light_mean = Some(100), !.light_range = Some(50),
                    !.inflow_series = (2 :> 10) @@ (5 :> 40)],
    [BaseEnv EXCEPT !.temp_forcing_mode = "mean_range",
                    !.temp_epi_mean = Some(1500), !.temp_epi_range = Some(1000),
                    !.wind_forcing_mode = "time_varying",
                    !.wind_series = (2 :> 5000) @@ (4 :> 7000),
                    !.light_forcing_mode = "time_varying"] }

ProbeDates == {3}
ProbeTimeEnds == {4}
ProbeDts == {1}

\* one recorded call, with where the run stood when it was made
Probe(op, at, pair, value, during) ==
  [op |-> op, at |-> at, pair |-> pair, value |-> value, during |-> during]

InitProbe ==
  /\ \E e \in ProbeEnvs : InitSim(Scenario(e, VarsSentinels, "Euler"))
  /\ twin = NoTwin

\* env.get_inflow(d), env.get_outflow(d)
ProbeInflow(d) ==
  Answer(Probe("get_inflow", d, Missing, Some(GetInflow(env, d)), pc))
ProbeOutflow(d) ==
  Answer(Probe("get_outflow", d, Missing, Some(GetOutflow(env, d)), pc))

\* env.get_temperature_pair(d)
ProbeTemperature(d) ==
  Answer(Probe("get_temperature_pair", d, GetTemperaturePair(env, d), None,
               pc))

\* env.get_wind(d), env.get_light(d)
ProbeWind(d) ==
  Answer(Probe("get_wind", d, Missing, GetWind(env, d), pc))
ProbeLight(d) ==
  Answer(Probe("get_light", d, Missing, GetLight(env, d), pc))

NextProbe ==
  \/ \E te \in ProbeTimeEnds, dt \in ProbeDts, now \in NowDates : RunCall(te, dt, now)
  \/ Tick
  \/ RunReturn
  \/ \E d \in ProbeDates : ProbeInflow(d)
  \/ \E d \in ProbeDates : ProbeOutflow(d)
  \/ \E d \in ProbeDates : ProbeTemperature(d)
  \/ \E d \in ProbeDates : ProbeWind(d)
  \/ \E d \in ProbeDates : ProbeLight(d)

SpecProbe == InitProbe /\ [][NextProbe]_vars

(***************************************************************************)
(* The food web called directly: compute_rates and build_foodweb_matrices  *)
(* on a collection, and _build_weights on its own                          *)
(***************************************************************************)
\* the collection of the integration scenarios, the second predator with or without
\* an assimilation_eff attribute of its own
WebVars(prey_value, consumption_rate, feeding_prefs, assimilation_eff) ==
  [StepVars(prey_value, consumption_rate, feeding_prefs) EXCEPT
     ![3].assimilation_eff = assimilation_eff]

AssimilationEffs == {None, Some(50)}

WebScenarios ==
  {Scenario([BaseEnv EXCEPT !.food_web = w], WebVars(pv, cr, fp, ae), "Euler") :
     w \in StepWebs \ {None}, pv \in PreyValues, cr \in ConsumptionRates,
     fp \in FeedingPrefs, ae \in AssimilationEffs}

InitWeb ==
  /\ \E s \in WebScenarios : InitSim(s)
  /\ twin = NoTwin

\* env.food_web.compute_rates(t, dt_days, env, state_vars)
RatesCall ==
  Answer([op |-> "compute_rates",
          result |-> ComputeRates(Val(env.food_web), state_vars)])

\* env.food_web.build_foodweb_matrices(state_vars)
MatricesCall ==
  Answer([op |-> "build_foodweb_matrices",
          result |-> BuildFoodwebMatrices(Val(env.food_web), state_vars)])

NextWeb == RatesCall \/ MatricesCall

SpecWeb == InitWeb /\ [][NextWeb]_vars

\* the preferences and preference_source handed to _build_weights
WeightPreferences ==
  FeedingPrefs \cup {<< << NameX, None >> >>,
                     << << NameAlgae, Some(0) >>, << NameFish, Some(25) >> >>}
WeightSources == PreferenceSources \cup {"other"}

InitWeights ==
  /\ \E w \in StepWebs \ {None} :
       InitSim(Scenario([BaseEnv EXCEPT !.food_web = w], << >>, "Euler"))
  /\ twin = NoTwin

\* _build_weights(interactions, preferences, preference_source) on the web's records
WeightsCall(preferences, preference_source) ==
  Answer([op |-> "_build_weights",
          interactions |-> Val(env.food_web).interactions,
          preferences |-> preferences,
          preference_source |-> preference_source,
          result |-> BuildWeights(Val(env.food_web).interactions, preferences,
                                  preference_source)])

NextWeights ==
  \E preferences \in WeightPreferences, preference_source \in WeightSources :
    WeightsCall(preferences, preference_source)

SpecWeights == InitWeights /\ [][NextWeights]_vars

(***************************************************************************)
(* Properties of one integration step                                      *)
(***************************************************************************)
\* the last integrate call returned; Before is the collection it was handed
Stepped == last_call # << >> /\ error = ""
Before == last_call[1]

\* C1: explicit Euler is a simultaneous step.  After an integrate call, every variable's
\* value is its value before the step plus dt_days times its total rate, the total rate
\* being its own rate() plus the food-web rate of its name (0 if absent), both computed
\* on the values before the step; a constant-rate variable of rate c goes from v to
\* v + dt_days * c.
C1_EulerStepFromPreStepValues ==
  Stepped =>
    \A i \in 1..Len(state_vars) :
      /\ state_vars[i].value =
           Before[i].value
           + dt_days * (Rate(Before[i]) + FoodWebRates(env, Before).rates[Before[i].name])
      /\ state_vars[i].kind = "ConstantRateVar" =>
           state_vars[i].value = Before[i].value + dt_days * Before[i].c

\* a step of two days in which the food web moved mass from a prey to a predator
C1_Witness ==
  /\ Stepped
  /\ dt_days = 2
  /\ \E i, j \in 1..Len(state_vars) :
       /\ FoodWebRates(env, Before).rates[Before[i].name] < 0
       /\ FoodWebRates(env, Before).rates[Before[j].name] > 0
       /\ state_vars[i].value < Before[i].value
       /\ state_vars[j].value > Before[j].value

\* C2: for every Biota, Plant or Animal, value equals biomass in every reachable state.
C2_ValueEqualsBiomass ==
  \A i \in 1..Len(state_vars) :
    state_vars[i].kind \in BiotaKinds => state_vars[i].biomass = Some(state_vars[i].value)

\* C3: in compute_rates, the amount consumed from each prey, summed over all the
\* predators that feed on it, is at most max(value, 0) of the prey before the step.
C3_PreyConsumptionBounded ==
  Stepped =>
    \A i \in 1..Len(Before) :
      FoodWebRates(env, Before).taken[i] <= Max2(Before[i].value, 0)

\* C4: after an integrate step with a food web and dt_days > 0, a variable whose value
\* before the step was >= 0 and whose own rate is 0 has a value >= 0, however many
\* predators feed on it.
C4_PreyStaysNonNegative ==
  (Stepped /\ dt_days > 0 /\ ~IsNone(env.food_web)) =>
    \A i \in 1..Len(state_vars) :
      (Before[i].value >= 0 /\ Rate(Before[i]) = 0) => state_vars[i].value >= 0

(***************************************************************************)
(* Properties of Simulation.run                                            *)
(***************************************************************************)
\* the conditions under which the forcing blocks of the loop body raise at time d
ForcingMissing(e, d) ==
  \/ /\ e.temp_forcing_mode \in TempModes
     /\ IsNone(GetTemperaturePair(e, d).epi) \/ IsNone(GetTemperaturePair(e, d).hypo)
  \/ /\ e.wind_forcing_mode \in WindModes
     /\ IsNone(GetWind(e, d))
  \/ /\ e.light_forcing_mode \in LightModes
     /\ IsNone(GetLight(e, d))

\* the last run was aborted by a forcing block
Aborted == pc = "raised" /\ error = "ValueError"

\* the entries the current run appended
RunEntries == SubSeq(outputs, run_base + 1, Len(outputs))

\* the number of ticks completed by a run that stands at time d
TicksDone(d) == IF dt_days = 0 THEN 0 ELSE (d - run_start) \div dt_days

\* C5 (as claimed): when run aborts on a missing temperature, wind or light value,
\* the log holds no entry from the ticks of that run.
C5_NoEntriesAfterAbort == Aborted => Len(outputs) = run_base

\* C5 (amended): when run aborts on a missing temperature, wind or light value, the
\* log still holds one entry for every tick of that run that completed before the
\* abort, at the times run_start + k * dt_days, and no entry for the aborting tick.
C5_CompletedTicksRemainAfterAbort ==
  Aborted =>
    /\ Len(outputs) = run_base + TicksDone(t)
    /\ \A k \in 1..TicksDone(t) : outputs[run_base + k][1] = run_start + (k - 1) * dt_days

\* a run aborted after two completed ticks
C5_Witness == Aborted /\ Len(outputs) >= run_base + 2

IsPrefix(a, b) == Len(a) <= Len(b) /\ SubSeq(b, 1, Len(a)) = a

\* the timestamps of a log are strictly increasing
Increasing(log) ==
  \A i, j \in 1..Len(log) : i < j => log[i][1] < log[j][1]

\* C9 (as claimed): after any sequence of run calls the log is append-only and its
\* timestamps are strictly increasing.
C9_AppendOnlyAndTimeOrdered ==
  [][IsPrefix(outputs, outputs') /\ Increasing(outputs')]_vars

\* C9 (amended): no step removes or changes an entry of the log, new entries go to its
\* end, and the entries appended by one run with dt_days > 0 have strictly increasing
\* timestamps.
C9_AppendOnlyAndOrderedWithinRun ==
  [][/\ IsPrefix(outputs, outputs')
     /\ dt_days' > 0 =>
          Increasing(SubSeq(outputs', run_base' + 1, Len(outputs')))]_vars

\* a second run with dt_days > 0 that appended two entries after those of the first
C9_Witness ==
  /\ nruns = 2
  /\ run_base > 0
  /\ dt_days > 0
  /\ Len(outputs) >= run_base + 2

\* the number of k >= 0 with t0 + k * dt < te, for dt > 0
TicksDue(t0, te, dt) == IF te <= t0 THEN 0 ELSE ((te - t0) + dt - 1) \div dt

\* C10: a run with state variables and dt_days > 0 that returns has started at the
\* earliest inflow key (else the earliest outflow key) and has appended exactly one
\* entry for each t_k = t0 + k * dt_days < time_end, in increasing k, and none at or
\* after time_end; when time_end <= t0 it appended nothing and changed nothing.
C10_OneEntryPerTickBeforeTimeEnd ==
  (pc = "returned" /\ state_vars # << >> /\ dt_days > 0) =>
    /\ DOMAIN env.inflow_series # {} => run_start = SetMin(DOMAIN env.inflow_series)
    /\ (DOMAIN env.inflow_series = {} /\ DOMAIN env.outflow_series # {}) =>
         run_start = SetMin(DOMAIN env.outflow_series)
    /\ Len(outputs) = run_base + TicksDue(run_start, time_end, dt_days)
    /\ \A k \in 1..Len(RunEntries) :
         /\ RunEntries[k][1] = run_start + (k - 1) * dt_days
         /\ RunEntries[k][1] < time_end
    /\ time_end <= run_start =>
         /\ env = at_call.env
         /\ state_vars = at_call.state_vars
         /\ outputs = SubSeq(outputs, 1, run_base)

\* a returned run of two ticks of two days
C10_Witness ==
  /\ pc = "returned"
  /\ dt_days = 2
  /\ Len(RunEntries) = 2
  /\ RunEntries[2][1] = run_start + 2

(***************************************************************************)
(* Determinism: two executions from equal inputs                           *)
(***************************************************************************)
Ended(p) == p \in {"returned", "raised"}

BothEnded == Ended(pc) /\ Ended(twin.pc)

SameOutcome ==
  /\ twin.outputs = outputs
  /\ twin.env.volume = env.volume
  /\ twin.state_vars = state_vars
  /\ twin.error = error

\* C7 (as claimed): two executions of run from equal env, state variables, time_end and
\* dt_days give the same log and the same final volume, for every configuration.
C7_Deterministic == BothEnded => (twin.outputs = outputs /\ twin.env.volume = env.volume)

\* C7 (amended): two executions of run from equal inputs give the same log, final
\* volume, final state variables and outcome, provided the inflow series or the
\* outflow series is not empty.
C7_DeterministicGivenFlowDates ==
  (BothEnded /\ (DOMAIN env.inflow_series # {} \/ DOMAIN env.outflow_series # {})) =>
    SameOutcome

\* two executions that completed two ticks or more and agree
C7_Witness ==
  /\ BothEnded
  /\ DOMAIN env.inflow_series # {}
  /\ Len(outputs) >= 2
  /\ SameOutcome

(***************************************************************************)
(* Termination                                                             *)
(***************************************************************************)
\* C8 (as claimed): every run call terminates, whatever time_end and dt_days.
C8_RunTerminates == (pc = "running") ~> (pc # "running")

\* C8 (amended): every run call with dt_days # 0 terminates: it returns, or it raises
\* ValueError, NotImplementedError or, stepping backwards to datetime.min,
\* OverflowError.
C8_RunTerminatesWhenDtNonZero == (pc = "running" /\ dt_days # 0) ~> (pc # "running")

\* a run stepping backwards that ended at datetime.min after completing ticks
C8_Witness ==
  /\ pc = "raised"
  /\ error = "OverflowError"
  /\ dt_days < 0
  /\ RunEntries # << >>

(***************************************************************************)
(* Water balance                                                           *)
(***************************************************************************)
\* (get_inflow(t_k) - get_outflow(t_k)) * dt_days for the k-th tick of the current run
NetFlow(k) ==
  (GetInflow(env, RunEntries[k][1]) - GetOutflow(env, RunEntries[k][1])) * dt_days

C12_UnsupportedMethodRaisesUnchanged ==
  (last_call # << >> /\ method # "Euler") =>
    /\ error = "NotImplementedError"
    /\ state_vars = Before

\* a refused step of non-zero length on a collection with a food web
C12_Witness ==
  /\ last_call # << >>
  /\ method = "RK4"
  /\ error = "NotImplementedError"
  /\ ~IsNone(env.food_web)
  /\ dt_days # 0
  /\ ncalls = 1

(***************************************************************************)
(* Temperature pair: what each layer resolves to on its own                *)
(***************************************************************************)
\* the value one layer's own forcing data gives at date d, None when it gives none
ResolvedLayer(mode, series, mean, range, constant, d) ==
  IF mode = "series" THEN SeriesGet(series, d)
  ELSE IF mode = "series_interpolate" THEN GetSeriesValueLinear(series, d)
  ELSE IF mode = "mean_range" THEN SeasonalValue(mean, range, d)
  ELSE constant

ResolvedEpi(d) ==
  ResolvedLayer(env.temp_forcing_mode, env.temp_epi_series, env.temp_epi_mean,
                env.temp_epi_range, env.temp_epi_constant, d)

ResolvedHypo(d) ==
  ResolvedLayer(env.temp_forcing_mode, env.temp_hypo_series, env.temp_hypo_mean,
                env.temp_hypo_range, env.temp_hypo_constant, d)

\* the two layers after a missing one has taken the other's value
MirroredEpi(d) == IF IsNone(ResolvedEpi(d)) THEN ResolvedHypo(d) ELSE ResolvedEpi(d)
MirroredHypo(d) == IF IsNone(ResolvedHypo(d)) THEN ResolvedEpi(d) ELSE ResolvedHypo(d)

TempReplies == {i \in 1..Len(replies) : replies[i].op = "get_temperature_pair"}

LayerGap(d) == Abs(Val(MirroredEpi(d)) - Val(MirroredHypo(d)))

\* C13: whenever get_temperature_pair returns values, stratified is true exactly
\* when the resolved epilimnion and hypolimnion differ by more than 3.0 degrees (a
\* difference of exactly 3.0 is not stratified); a pair that is not stratified
\* reports the epilimnion value for both layers, and a stratified pair reports the
\* resolved hypolimnion value unchanged.
C13_StratifiedIffGapAboveThree ==
  \A i \in TempReplies :
    ~IsNone(replies[i].pair.epi) =>
      /\ replies[i].pair.stratified = (LayerGap(replies[i].at) > 300)
      /\ replies[i].pair.epi = MirroredEpi(replies[i].at)
      /\ ~replies[i].pair.stratified => replies[i].pair.hypo = replies[i].pair.epi
      /\ replies[i].pair.stratified => replies[i].pair.hypo = MirroredHypo(replies[i].at)

\* the same environment answered once with a gap of exactly 3.0 (not stratified)
\* and once with a larger gap (stratified, hypolimnion kept)
C13_Witness ==
  \E i, j \in TempReplies :
    /\ ~IsNone(replies[i].pair.epi)
    /\ LayerGap(replies[i].at) = 300
    /\ ~replies[i].pair.stratified
    /\ ~IsNone(replies[j].pair.epi)
    /\ replies[j].pair.stratified
    /\ replies[j].pair.hypo # replies[j].pair.epi

\* exactly one of the two layers resolves at date d
OneLayerResolves(d) == IsNone(ResolvedEpi(d)) # IsNone(ResolvedHypo(d))

\* the reply (v, v, False) carrying the one resolved value
MirroredPair(d) == [epi |-> MirroredEpi(d), hypo |-> MirroredEpi(d), stratified |-> FALSE]

SeriesMode == env.temp_forcing_mode \in {"series", "series_interpolate"}

\* C14 as stated: in every temperature mode, when exactly one of epilimnion and
\* hypolimnion resolves at t, the pair is (v, v, False) and never missing.
C14_OneLayerAlwaysMirrored ==
  \A i \in TempReplies :
    OneLayerResolves(replies[i].at) => replies[i].pair = MirroredPair(replies[i].at)

\* C14: when exactly one of epilimnion and hypolimnion resolves at t, the modes
\* mean_range and constant return (v, v, False); the modes series and
\* series_interpolate return (v, v, False) only when the epilimnion resolves and
\* there is no hypolimnion series at all, and report the pair as missing otherwise.
C14_OneLayerMirroredOutsideSeriesGaps ==
  \A i \in TempReplies :
    OneLayerResolves(replies[i].at) =>
      IF SeriesMode /\ (IsNone(ResolvedEpi(replies[i].at)) \/ env.temp_hypo_series # EmptySeries)
      THEN replies[i].pair = Missing
      ELSE replies[i].pair = MirroredPair(replies[i].at)

\* a lone hypolimnion value was mirrored into the epilimnion
C14_Witness ==
  \E i \in TempReplies :
    /\ IsNone(ResolvedEpi(replies[i].at))
    /\ ~IsNone(ResolvedHypo(replies[i].at))
    /\ replies[i].pair.epi = ResolvedHypo(replies[i].at)
    /\ replies[i].pair.hypo = ResolvedHypo(replies[i].at)

(***************************************************************************)
(* Series resolver, asked through get_inflow                               *)
(***************************************************************************)
FlowReplies == {i \in 1..Len(replies) : replies[i].op = "get_inflow"}

FlowDates == DOMAIN env.inflow_series

\* l and r are neighbouring keys of the inflow series
AdjacentKeys(l, r) == l < r /\ \A k \in FlowDates : ~(l < k /\ k < r)

\* C15: for an inflow series of two or more points, a query at a stored key
\* returns the stored value, and a query strictly between two adjacent keys l < r
\* returns value(l) + (value(r) - value(l)) * (t - l) / (r - l); the series is a
\* mapping, so the order in which its points were inserted plays no part.
C15_ExactKeyAndLinearBetween ==
  \A i \in FlowReplies :
    Cardinality(FlowDates) >= 2 =>
      /\ replies[i].at \in FlowDates =>
           replies[i].value = Some(env.inflow_series[replies[i].at])
      /\ \A l, r \in FlowDates :
           (AdjacentKeys(l, r) /\ l < replies[i].at /\ replies[i].at < r) =>
             replies[i].value =
               Some(env.inflow_series[l]
                    + ((env.inflow_series[r] - env.inflow_series[l]) * (replies[i].at - l))
                        \div (r - l))

\* one series answered at a stored key and strictly inside a bracket whose two ends
\* differ
C15_Witness ==
  \E i, j \in FlowReplies :
    /\ Cardinality(FlowDates) >= 3
    /\ replies[i].at \in FlowDates
    /\ \E l, r \in FlowDates :
         /\ AdjacentKeys(l, r) /\ l < replies[j].at /\ replies[j].at < r
         /\ env.inflow_series[l] # env.inflow_series[r]
         /\ replies[j].value # Some(env.inflow_series[l])
         /\ replies[j].value # Some(env.inflow_series[r])

\* every key of the inflow series lies in one calendar year
OneYearSeries ==
  FlowDates # {} /\ \A k, m \in FlowDates : YearOf(k) = YearOf(m)

\* d falls on the month and day of key k, in another year
SameDayOtherYear(d, k) ==
  YearOf(d) # YearOf(k) /\ MonthOf(d) = MonthOf(k) /\ DayOf(d) = DayOf(k)

\* C16: for a series whose keys all lie in one calendar year, a timestamp a whole
\* number of years after or before a stored key, on the same month and day,
\* resolves to that key's stored value.
C16_CyclicPeriodicity ==
  \A i \in FlowReplies :
    OneYearSeries =>
      \A k \in FlowDates :
        SameDayOtherYear(replies[i].at, k) => replies[i].value = Some(env.inflow_series[k])

\* a series of several points answered a year before one key and years after
\* another key whose value differs from the first key's
C16_Witness ==
  \E i, j \in FlowReplies :
    /\ OneYearSeries
    /\ Cardinality(FlowDates) >= 2
    /\ \E k \in FlowDates :
         /\ SameDayOtherYear(replies[i].at, k)
         /\ replies[i].at < k
    /\ \E k \in FlowDates :
         /\ SameDayOtherYear(replies[j].at, k)
         /\ replies[j].at > k
         /\ env.inflow_series[k] # env.inflow_series[SetMin(FlowDates)]

(***************************************************************************)
(* Default wind series                                                     *)
(***************************************************************************)
WindReplies == {i \in 1..Len(replies) : replies[i].op = "get_wind"}

DefaultWind == env.wind_forcing_mode = "default_series" /\ ~IsNone(env.wind_mean)

\* the environment with wind_mean set to 3.0
WithDefaultMean == [env EXCEPT !.wind_mean = Some(3000)]

\* C19: with wind_mean set, the default wind series never gives a negative value;
\* two calls on the same day of the year give the same value whatever the year and
\* the order of the calls; and a wind_mean of zero or less gives what a wind_mean
\* of 3.0 gives.
C19_DefaultWindNonNegativePeriodic ==
  DefaultWind =>
    /\ \A i \in WindReplies :
         /\ ~IsNone(replies[i].value)
         /\ Val(replies[i].value) >= 0
         /\ Val(env.wind_mean) <= 0 =>
              replies[i].value = GetWind(WithDefaultMean, replies[i].at)
    /\ \A i, j \in WindReplies :
         YDay(replies[i].at) = YDay(replies[j].at) => replies[i].value = replies[j].value

\* a wind_mean of zero or less answered on one day of the year in two different
\* years, the later year asked first, and the value is the floor 0 on neither
C19_Witness ==
  /\ DefaultWind
  /\ Val(env.wind_mean) <= 0
  /\ Len(replies) = 2
  /\ WindReplies = {1, 2}
  /\ YDay(replies[1].at) = YDay(replies[2].at)
  /\ replies[1].at > replies[2].at
  /\ Val(replies[1].value) > 0

(***************************************************************************)
(* Biota growth and mortality                                              *)
(***************************************************************************)
BiotaIndexes == {i \in 1..Len(state_vars) : state_vars[i].kind \in BiotaKinds}

\* dt * (max_growth * v - mortality_rate * v), which is dt * (max_growth -
\* mortality_rate) * v; the rates are in percent per day and each product is cut to
\* a whole unit
NetGrowth(sv, dt) ==
  dt * (((sv.max_growth * sv.value) \div 100) - ((sv.mortality_rate * sv.value) \div 100))

\* C17: without a food web, one integrate step takes the value v of a Biota (Plant
\* and Animal included) to v + dt * (max_growth - mortality_rate) * v, v being the
\* value before the step.
C17_BiotaGrowthMortalityStep ==
  (Stepped /\ IsNone(env.food_web)) =>
    \A i \in BiotaIndexes :
      state_vars[i].value = Before[i].value + NetGrowth(Before[i], dt_days)

\* the second step of a growing Biota: it starts from the value the first step left
C17_Witness ==
  /\ Stepped
  /\ IsNone(env.food_web)
  /\ ncalls = 2
  /\ dt_days # 0
  /\ \E i \in BiotaIndexes :
       /\ state_vars[i].max_growth > state_vars[i].mortality_rate
       /\ state_vars[i].mortality_rate > 0
       /\ Before[i].value # at_call.state_vars[i].value
       /\ state_vars[i].value # Before[i].value

(***************************************************************************)
(* Inert compartments                                                      *)
(***************************************************************************)
\* the names the food web's interactions mention
WebNames ==
  IF IsNone(env.food_web) THEN {}
  ELSE UNION {{Val(env.food_web).interactions[k].predator,
               Val(env.food_web).interactions[k].prey} :
                k \in 1..Len(Val(env.food_web).interactions)}

\* name is a predator or a prey of the food web, by its spelling or its normal form
InFoodWeb(name) ==
  \E n \in WebNames : n = name \/ NormalizeName(n) = NormalizeName(name)

\* a Nutrient, Detritus or base StateVariable that no forcing and no interaction names
Inert(i) ==
  /\ state_vars[i].kind \in {"StateVariable", "Nutrient", "Detritus"}
  /\ Lower(state_vars[i].name) \notin {StrTemperature, StrWindLoading, StrLight}
  /\ ~InFoodWeb(state_vars[i].name)

\* every snapshot of the log shows variable i's present value under its name
ShownInEverySnapshot(i) ==
  \A k \in 1..Len(outputs) : outputs[k][2][state_vars[i].name] = state_vars[i].value

\* variable i's snapshot entry is written by nothing else: no other variable has
\* its name, and its name is not a temperature key of a temperature-forced run
OwnsSnapshotKey(i) ==
  /\ \A j \in 1..Len(state_vars) : state_vars[j].name = state_vars[i].name => j = i
  /\ env.temp_forcing_mode \in TempModes =>
       state_vars[i].name \notin {KeyEpilimnion, KeyHypolimnion, KeyStratified}

\* C18 as stated: an inert compartment keeps its initial value in every snapshot
\* of every run.
C18_InertValueInEverySnapshot ==
  \A i \in 1..Len(state_vars) :
    Inert(i) =>
      /\ state_vars[i].value = at_call.state_vars[i].value
      /\ ShownInEverySnapshot(i)

\* C18: an inert compartment (Nutrient, Detritus or base StateVariable, not named
\* temperature / wind loading / light, not a predator or prey) keeps its value
\* through every run, for any number of ticks and any dt_days; every snapshot shows
\* that value under its name provided no other variable carries the name and the
\* name is not one of the keys Temperature_Epilimnion, Temperature_Hypolimnion,
\* Temperature_Stratified that a temperature-forced tick writes into the snapshot.
C18_InertValueKeptAndShownUnderOwnKey ==
  \A i \in 1..Len(state_vars) :
    Inert(i) =>
      /\ state_vars[i].value = at_call.state_vars[i].value
      /\ OwnsSnapshotKey(i) => ShownInEverySnapshot(i)

\* the second run of a food-web scenario has logged ticks that moved another
\* variable, beside an inert one
C18_Witness ==
  /\ pc = "returned"
  /\ nruns = 2
  /\ Len(RunEntries) >= 2
  /\ Len(outputs) > Len(RunEntries)
  /\ ~IsNone(env.food_web)
  /\ \E i \in 1..Len(state_vars) : Inert(i) /\ OwnsSnapshotKey(i) /\ state_vars[i].value # 0
  /\ \E j \in 1..Len(state_vars) : state_vars[j].value # at_call.state_vars[j].value

(***************************************************************************)
(* What a run leaves alone                                                 *)
(***************************************************************************)
\* an environment with its volume blanked: geometry, every forcing series,
\* constant, mean/range and mode tag, and the food web with both its indexes
Fixed(e) == [e EXCEPT !.volume = 0]

\* a state variable with its value and biomass blanked
Shell(sv) == [sv EXCEPT !.value = 0, !.biomass = None]

\* the fields a step may not touch are the same before and after it
SameFrame ==
  /\ Fixed(env') = Fixed(env)
  /\ Len(state_vars') = Len(state_vars)
  /\ \A i \in 1..Len(state_vars) : Shell(state_vars'[i]) = Shell(state_vars[i])
  /\ method' = method

\* C20: no step of run changes anything but Environment.volume, the state
\* variables' value/biomass and the output log: area, depth_mean, depth_max, every
\* forcing series, constant, mean/range parameter and mode tag, the food web's
\* interactions and both predator indexes, and the solver's method stay as they are.
C20_RunMutatesOnlyVolumeValuesLog == [][SameFrame]_vars

\* two ticks of a food-web run have moved the volume and a value, and the food
\* web and geometry are those of the call
C20_Witness ==
  /\ pc = "running"
  /\ Len(RunEntries) >= 2
  /\ ~IsNone(env.food_web)
  /\ env.volume # at_call.env.volume
  /\ \E i \in 1..Len(state_vars) : state_vars[i].value # at_call.state_vars[i].value
  /\ Fixed(env) = Fixed(at_call.env)

(***************************************************************************)
(* Forcing accessors are pure                                              *)
(***************************************************************************)
\* two recorded calls of one accessor with one timestamp gave one result
SameAnswers ==
  \A i, j \in 1..Len(replies) :
    (replies[i].op = replies[j].op /\ replies[i].at = replies[j].at) =>
      (replies[i].pair = replies[j].pair /\ replies[i].value = replies[j].value)

\* a step that records a call changes nothing of the simulation
CallLeavesAll ==
  replies' # replies =>
    UNCHANGED << env, state_vars, method, outputs, pc, error, t, time_end, dt_days >>

\* C21: get_inflow, get_outflow, get_temperature_pair, get_wind and get_light are
\* pure: a call leaves the Environment (series, constants, modes, volume) and the
\* rest of the simulation as they are, and two calls with the same timestamp
\* return the same result whether made before, between or after the ticks of a run.
C21_AccessorsPure == [](SameAnswers) /\ [][CallLeavesAll]_vars

\* one accessor asked with one timestamp before the first run and again after the
\* run returned with a changed volume, with a value to return
C21_Witness ==
  /\ Len(replies) = 2
  /\ replies[1].op = replies[2].op
  /\ replies[1].at = replies[2].at
  /\ replies[1].during = "idle"
  /\ replies[2].during = "returned"
  /\ nruns = 1
  /\ env.volume # at_call.env.volume
  /\ replies[1].value # None
  /\ replies[1].value # Some(0)

(***************************************************************************)
(* The food web: matrices against rates                                    *)
(***************************************************************************)
WebReplies(op) == {i \in 1..Len(replies) : replies[i].op = op}

FoodWebOf == Val(env.food_web)

\* the indexes in state_vars of the organisms, in order
BiotaSeq == SortSet({i \in 1..Len(state_vars) : state_vars[i].kind \in BiotaKinds})

\* the weights compute_rates builds at entry k of the predator index, for the
\* predator state variable its key resolves to
RatesWeights(k) ==
  BuildWeights(FoodWebOf.predator_index[k][2],
               state_vars[LookupVar(state_vars, FoodWebOf.predator_index[k][1])].feeding_prefs,
               FoodWebOf.preference_source)

\* compute_rates resolves weight w for the prey of index q of the predator of index p
RatesResolve(p, q, w) ==
  \E k \in 1..Len(FoodWebOf.predator_index) :
    /\ LookupVar(state_vars, FoodWebOf.predator_index[k][1]) = p
    /\ \E m \in 1..Len(RatesWeights(k)) :
         /\ LookupVar(state_vars, RatesWeights(k)[m][1]) = q
         /\ RatesWeights(k)[m][2] = w

\* every weight any of the two functions may hold in the scenarios
WeightRange == 0..100

\* C22: build_foodweb_matrices agrees with compute_rates: for all organisms P and
\* Q, the preferences entry [P][Q] is weight w exactly when compute_rates resolves
\* weight w for the prey Q of the predator P.
C22_MatricesAgreeWithRates ==
  \A i \in WebReplies("build_foodweb_matrices") :
    \A r, c \in 1..Len(BiotaSeq) : \A w \in WeightRange :
      (replies[i].result.preferences[r][c] = Some(w))
        <=> RatesResolve(BiotaSeq[r], BiotaSeq[c], w)

(***************************************************************************)
(* Order of the steps of one tick                                          *)
(***************************************************************************)
\* the value the forcing block of a tick at time t leaves in variable i: the first
\* variable called temperature, wind loading or light takes the resolved forcing
ForcedValue(i) ==
  IF env.temp_forcing_mode \in TempModes
     /\ i = FirstNamed({j \in 1..Len(state_vars) : Lower(state_vars[j].name) = StrTemperature})
  THEN Val(GetTemperaturePair(env, t).epi)
  ELSE IF env.wind_forcing_mode \in WindModes
          /\ i = FirstNamed({j \in 1..Len(state_vars) :
                               Lower(state_vars[j].name) = StrWindLoading})
  THEN Val(GetWind(env, t))
  ELSE IF env.light_forcing_mode \in LightModes
          /\ i = FirstNamed({j \in 1..Len(state_vars) : Lower(state_vars[j].name) = StrLight})
  THEN Val(GetLight(env, t))
  ELSE state_vars[i].value

\* the collection after the forcing block
Forced == [i \in 1..Len(state_vars) |-> [state_vars[i] EXCEPT !.value = ForcedValue(i)]]

\* the collection after the step is one explicit Euler step of dt_days away from fed,
\* with the food web's rates for fed
StepsFrom(fed, rates) ==
  \A i \in 1..Len(fed) :
    state_vars'[i].value = fed[i].value + dt_days * (Rate(fed[i]) + rates[fed[i].name])

\* the step is a tick that ran to its end
TickCompleted == pc = "running" /\ pc' = "running" /\ log_parity' # log_parity

\* the last entry of the log after the step
NewEntry == outputs'[Len(outputs')]

PointsOfYear(series, year) ==
  SelectSeq(GetSortedDates(series), LAMBDA d : YearOf(d) = year)

\* q lies in the closing bracket of the cycle: after its last point, or before its first
InClosingBracket(cycle, q) == q > cycle[Len(cycle)] \/ q < cycle[1]

\* last_val + frac * (first_val - last_val), with the first point's copy one year on
ClosingValue(series, cycle, q) ==
  Lerp(cycle[Len(cycle)], AddYears(cycle[1], 1), series[cycle[Len(cycle)]], series[cycle[1]],
       IF q < cycle[1] THEN AddYears(q, 1) ELSE q)

\* what the wraparound rule demands of a query d outside the range of the series
WrapsAsStated(series, d, value, target_year) ==
  (Len(PointsOfYear(series, target_year)) >= 2
   /\ InClosingBracket(PointsOfYear(series, target_year), ShiftToYear(d, target_year)))
    => value = ClosingValue(series, PointsOfYear(series, target_year),
                            ShiftToYear(d, target_year))

\* the first and the last date of the inflow series
InflowStart == SetMin(DOMAIN env.inflow_series)
InflowEnd == CHOOSE x \in DOMAIN env.inflow_series : \A y \in DOMAIN env.inflow_series : y <= x

\* C24: a query outside the range of a series whose year-shifted date falls after
\* the last point of the target year, or before its first, is answered with
\* last_val + frac * (first_val - last_val), the first point of that year's cycle
\* being copied one year on; for every series, multi-year ones included.
C24_WraparoundClosesOnFirstPoint ==
  \A i \in 1..Len(replies) :
    (replies[i].op = "get_inflow" /\ env.inflow_series # EmptySeries) =>
      /\ replies[i].at < InflowStart =>
           WrapsAsStated(env.inflow_series, replies[i].at, Val(replies[i].value),
                         YearOf(InflowStart))
      /\ replies[i].at > InflowEnd =>
           WrapsAsStated(env.inflow_series, replies[i].at, Val(replies[i].value),
                         YearOf(InflowEnd))

(***************************************************************************)
(* series_interpolate: no value outside the coverage                       *)
(***************************************************************************)
\* d lies within [min key, max key] of a non-empty series
Covers(series, d) == \E a, b \in DOMAIN series : a <= d /\ d <= b

\* the stored points nearest to d on either side
LeftOf(series, d) == CHOOSE a \in DOMAIN series : a < d /\ \A x \in DOMAIN series : x < d => x <= a
RightOf(series, d) == CHOOSE b \in DOMAIN series : b > d /\ \A x \in DOMAIN series : x > d => b <= x

\* the value at d on the straight line between the two stored points around it
OnLine(series, d, left, right) ==
  series[left] + (((series[right] - series[left]) * (d - left)) \div (right - left))

\* the linearly interpolated value of a series at a covered date
LinearValue(series, d) ==
  IF d \in DOMAIN series THEN series[d]
  ELSE OnLine(series, d, LeftOf(series, d), RightOf(series, d))

\* the pair reported for interpolated layer values: the stratification rule on them
InterpolatedPair(epi, hypo) ==
  [epi |-> Some(epi), hypo |-> Some(IF Abs(epi - hypo) > 300 THEN hypo ELSE epi),
   stratified |-> Abs(epi - hypo) > 300]

\* what series_interpolate owes a query at d
InterpolateReply(epi_series, hypo_series, d, pair) ==
  IF ~Covers(epi_series, d) \/ (hypo_series # EmptySeries /\ ~Covers(hypo_series, d))
  THEN pair = Missing
  ELSE IF hypo_series = EmptySeries
  THEN pair = InterpolatedPair(LinearValue(epi_series, d), LinearValue(epi_series, d))
  ELSE pair = InterpolatedPair(LinearValue(epi_series, d), LinearValue(hypo_series, d))

\* C25: in mode series_interpolate a query outside [min key, max key] of the
\* epilimnion series, or of a non-empty hypolimnion series, is answered
\* (None, None, False), never with an extrapolated or cyclic value; a query inside
\* both ranges is answered with the linearly interpolated layer values (under the
\* stratification rule every mode ends with).
C25_InterpolateOnlyInsideCoverage ==
  \A i \in 1..Len(replies) :
    (replies[i].op = "get_temperature_pair" /\ env.temp_forcing_mode = "series_interpolate")
      => InterpolateReply(env.temp_epi_series, env.temp_hypo_series,
                          replies[i].at, replies[i].pair)

\* one query inside the epilimnion range but past the last hypolimnion point was
\* answered with no pair, another between two epilimnion points with a value on the line
C25_Witness ==
  /\ Len(replies) = 2
  /\ env.temp_forcing_mode = "series_interpolate"
  /\ replies[1].op = "get_temperature_pair" /\ replies[2].op = "get_temperature_pair"
  /\ Covers(env.temp_epi_series, replies[1].at)
  /\ env.temp_hypo_series # EmptySeries
  /\ ~Covers(env.temp_hypo_series, replies[1].at)
  /\ replies[1].pair = Missing
  /\ replies[2].at \notin DOMAIN env.temp_epi_series
  /\ replies[2].pair.epi = Some(1100)

(***************************************************************************)
(* The resolver stays within the stored values                             *)
(***************************************************************************)
\* the smallest and the largest value stored in a series
SmallestOf(series) == CHOOSE v \in {series[d] : d \in DOMAIN series} :
                        \A d \in DOMAIN series : v <= series[d]
LargestOf(series) == CHOOSE v \in {series[d] : d \in DOMAIN series} :
                       \A d \in DOMAIN series : series[d] <= v

\* one unit in the last place of the float x
UlpOf(x) == StepOf(Abs(x), 1, 1)

\* value is no further than slack below lo or above hi
Within(value, lo, hi, slack) == lo - slack <= value /\ value <= hi + slack

\* the replies of _get_series_value
ResolveReplies == { i \in 1..Len(replies) : replies[i].op = "_get_series_value" }

\* C29 as stated: for every non-empty series and every query, inside the range or
\* outside it through the cyclic rule, _get_series_value answers with a value
\* that lies between the smallest and the largest value stored in the series.
C29_ValueWithinStoredRange ==
  \A i \in ResolveReplies :
    Within(replies[i].result, SmallestOf(replies[i].series), LargestOf(replies[i].series), 0)

\* C29 as the code has it: the value lies between the smallest and the largest
\* stored value up to the rounding of left_val + (right_val - left_val) * frac,
\* one unit in the last place of the stored value of largest magnitude; a query
\* on a stored date, and any query on a one-point series, is answered with a
\* stored value.
C29_ValueWithinStoredRangeUpToRounding ==
  \A i \in ResolveReplies :
    /\ Within(replies[i].result,
              SmallestOf(replies[i].series), LargestOf(replies[i].series),
              IF UlpOf(SmallestOf(replies[i].series)) > UlpOf(LargestOf(replies[i].series))
              THEN UlpOf(SmallestOf(replies[i].series))
              ELSE UlpOf(LargestOf(replies[i].series)))
    /\ (replies[i].at \in DOMAIN replies[i].series
         \/ Cardinality(DOMAIN replies[i].series) = 1)
        => \E d \in DOMAIN replies[i].series : replies[i].result = replies[i].series[d]

\* a query wrapped onto the virtual copy of a Feb 29 point was answered below the
\* smallest stored value, and a query between two points strictly between them
C29_Witness ==
  /\ Len(replies) = 2
  /\ replies[1].op = "_get_series_value" /\ replies[2].op = "_get_series_value"
  /\ replies[1].at = ToOrdinal(3, 2, 28)
  /\ replies[1].result < SmallestOf(replies[1].series)
  /\ replies[2].at \notin DOMAIN replies[2].series
  /\ SmallestOf(replies[2].series) < replies[2].result
  /\ replies[2].result < LargestOf(replies[2].series)

(***************************************************************************)
(* Predator gain and predator budget                                       *)
(***************************************************************************)
\* the keys of the predator index that compute_rates resolves to variable p
KeysOf(p) ==
  { k \in 1..Len(FoodWebOf.predator_index) :
      LookupVar(state_vars, FoodWebOf.predator_index[k][1]) = p }

\* the efficiency of variable p: its own assimilation_eff, else the default 0.7
EfficiencyOf(p) ==
  IF state_vars[p].assimilation_eff = None THEN 70 ELSE Val(state_vars[p].assimilation_eff)

\* what the rates credit to variable p: its rate with the amounts taken from it put back
GainIn(result, p) == result.rates[state_vars[p].name] + result.taken[p]

\* the gain of p is its efficiency times the amounts it actually took
GainFollowsIntake(result, p) ==
  /\ GainIn(result, p) >= 0
  /\ 100 * GainIn(result, p) <= EfficiencyOf(p) * result.eaten[p]
  /\ Cardinality(KeysOf(p)) <= 1 =>
       GainIn(result, p) = (EfficiencyOf(p) * result.eaten[p]) \div 100

\* with the one record 'Fish' eats 'Algae': Fish (the second variable) takes
\* min(consumption_rate * value, max(prey value, 0)) from Algae (the first)
OnePairIntake ==
  Min2((state_vars[2].consumption_rate * Max2(state_vars[2].value, 0)) \div 100,
       Max2(state_vars[1].value, 0))

\* C26: the gain compute_rates credits to a predator is its assimilation
\* efficiency (its own assimilation_eff, else 0.7) times the sum of the amounts it
\* actually took after the clamp to the prey's value; every such amount is
\* subtracted from the rate of the prey; the gain never exceeds total consumed
\* times efficiency.
C26_GainIsEfficiencyTimesIntake ==
  \A i \in WebReplies("compute_rates") :
    /\ \A p \in 1..Len(state_vars) : GainFollowsIntake(replies[i].result, p)
    /\ SumSeq(replies[i].result.taken) = SumSeq(replies[i].result.eaten)
    /\ FoodWebOf = WebFishAlgae =>
         /\ replies[i].result.eaten[2] = OnePairIntake
         /\ replies[i].result.rates[NameAlgae] = 0 - OnePairIntake
         /\ replies[i].result.rates[NameFish] = (70 * OnePairIntake) \div 100

\* compute_rates has answered for two predators on a prey that could not feed both
\* in full: the one with an assimilation_eff of its own gained half of what it took
C26_Witness ==
  \E i \in WebReplies("compute_rates") :
    /\ state_vars[3].assimilation_eff = Some(50)
    /\ replies[i].result.eaten[3] > 0
    /\ replies[i].result.eaten[2] > 0
    /\ state_vars[1].value > 0
    /\ replies[i].result.taken[1] >= state_vars[1].value
    /\ replies[i].result.eaten[3]
         < (state_vars[3].consumption_rate * state_vars[3].value) \div 100
    /\ GainIn(replies[i].result, 3) = replies[i].result.eaten[3] \div 2
    /\ GainIn(replies[i].result, 2) = (70 * replies[i].result.eaten[2]) \div 100

\* C28: the total a predator state variable consumes in one compute_rates call
\* never exceeds consumption_rate * max(value, 0), for any interaction records and
\* any spelling of the predator names.
C28_PredatorWithinBudget ==
  \A i \in WebReplies("compute_rates") :
    \A p \in 1..Len(state_vars) :
      replies[i].result.eaten[p]
        <= (state_vars[p].consumption_rate * Max2(state_vars[p].value, 0)) \div 100

(***************************************************************************)
(* Weight resolution                                                       *)
(***************************************************************************)
\* what one interaction record contributes under a preference source
Contribution(record, preference_source) ==
  CASE preference_source = "diet_percent" -> record.diet_percent
    [] preference_source = "observations" -> Some(record.observations)
    [] OTHER -> IF record.diet_percent # None THEN record.diet_percent
                ELSE Some(record.observations)

\* the records of a prey that contribute a weight
Contributing(interactions, preference_source, prey) ==
  { j \in 1..Len(interactions) :
      interactions[j].prey = prey /\ Contribution(interactions[j], preference_source) # None }

\* every name a call of _build_weights has seen
NamesSeen(r) ==
  {r.result[k][1] : k \in 1..Len(r.result)}
  \cup {r.preferences[k][1] : k \in 1..Len(r.preferences)}
  \cup {r.interactions[k].prey : k \in 1..Len(r.interactions)}

\* the weights are the non-None entries of the preferences
WeightsArePreferences(r, names) ==
  \A n \in names :
    /\ DictHas(r.result, n) <=> (DictHas(r.preferences, n) /\ DictGet(r.preferences, n) # None)
    /\ DictHas(r.result, n) => DictGet(r.result, n) = Val(DictGet(r.preferences, n))

\* the weights are the contributions of the records, the last record of a prey counting
WeightsAreContributions(r, names) ==
  \A n \in names :
    /\ DictHas(r.result, n) <=> Contributing(r.interactions, r.preference_source, n) # {}
    /\ DictHas(r.result, n) =>
         DictGet(r.result, n) =
           Val(Contribution(
                 r.interactions[SetMax(Contributing(r.interactions, r.preference_source, n))],
                 r.preference_source))

\* C27: _build_weights answers a non-empty feeding_prefs with exactly its non-None
\* entries, the interaction records being ignored; otherwise each record
\* contributes diet_percent under preference_source diet_percent (skipped when it
\* has none), its observation count under observations, and diet_percent falling
\* back to the observation count under any other source.
C27_WeightResolution ==
  \A i \in WebReplies("_build_weights") :
    /\ Cardinality({replies[i].result[k][1] : k \in 1..Len(replies[i].result)})
         = Len(replies[i].result)
    /\ IF replies[i].preferences # << >>
       THEN WeightsArePreferences(replies[i], NamesSeen(replies[i]))
       ELSE WeightsAreContributions(replies[i], NamesSeen(replies[i]))

\* one call with preferences holding a None entry answered without it, and one call
\* without preferences under another source answered with an observation count
\* for the record that has no diet_percent
C27_Witness ==
  /\ Len(replies) = 2
  /\ replies[1].op = "_build_weights" /\ replies[2].op = "_build_weights"
  /\ \E k \in 1..Len(replies[1].preferences) : replies[1].preferences[k][2] = None
  /\ replies[1].result # << >>
  /\ Len(replies[1].result) < Len(replies[1].preferences)
  /\ replies[2].preferences = << >>
  /\ replies[2].preference_source = "other"
  /\ \E j \in 1..Len(replies[2].interactions) :
       /\ replies[2].interactions[j].diet_percent = None
       /\ DictGet(replies[2].result, replies[2].interactions[j].prey)
            = replies[2].interactions[j].observations

(***************************************************************************)
(* A run on an empty collection                                            *)
(***************************************************************************)
\* with an empty collection no loop is ever entered, the log stays empty and the
\* Environment is the one the last call found
EmptyStaysQuiet ==
  state_vars = << >> =>
    /\ pc \in {"idle", "returned"}
    /\ outputs = << >>
    /\ error = ""
    /\ nruns > 0 => env = at_call.env

\* a call of run on an empty collection has returned in that very step, leaving the
\* Environment, its volume included, and the log as they were
EmptyCallReturns ==
  (state_vars = << >> /\ nruns' # nruns) =>
    /\ pc' = "returned"
    /\ env' = env
    /\ outputs' = outputs
    /\ state_vars' = << >>

\* C30: run on an empty collection of state variables is a no-op: it returns
\* immediately, the volume is unchanged even when inflow and outflow differ, and
\* no entry is appended to the log.
C30_EmptyRunIsNoOp == [](EmptyStaysQuiet) /\ [][EmptyCallReturns]_vars

\* run has been called twice on an empty collection with a positive step, an end
\* after the first flow date and inflow above outflow at that date
C30_Witness ==
  /\ state_vars = << >>
  /\ pc = "returned"
  /\ nruns = 2
  /\ dt_days > 0
  /\ env.inflow_series # EmptySeries
  /\ time_end > StartTime(env, 0)
  /\ GetInflow(env, StartTime(env, 0)) > GetOutflow(env, StartTime(env, 0))
  /\ env.volume = at_call.env.volume

====
